---- MODULE Spec2Model ----
(***************************************************************************)
(* Change-set calculation of capella-rm-bridge.                            *)
(*                                                                         *)
(* calculate_change_set(model, config, snapshot, force, safe_mode,         *)
(* gather_logs) constructs a TrackerChange, whose constructor runs         *)
(* calculate_change: check_requirements_module, the reconciliation of the  *)
(* CapellaTypesFolder, one step per top-level work item of the snapshot    *)
(* and the final clean-up of staged deletions.  The model follows          *)
(* src/capella_rm_bridge/changeset/change.py and __init__.py.              *)
(*                                                                         *)
(* Python values are modelled as follows.  A str is a string.  A dict is a *)
(* function whose domain is its set of keys.  A mapping of the snapshot,   *)
(* whose iteration order matters, is a sequence of entries with distinct   *)
(* keys.  None is the empty string where an object or a string is          *)
(* expected.  decl.UUIDReference and decl.Promise are records tagged by    *)
(* `ref`.  A model object is addressed by its UUID.                        *)
(***************************************************************************)
EXTENDS Integers, Sequences, FiniteSets, TLC

VARIABLES
    model,        \* the capellambse.MelodyModel
    snapshot,     \* the tracker snapshot (one module of the RM tool)
    config,       \* the tracker config
    force,        \* calculate_change_set(force=...)
    safe_mode,    \* calculate_change_set(safe_mode=...)
    gather_logs,  \* calculate_change_set(gather_logs=...)
    pc,           \* position inside calculate_change_set
    tc,           \* the TrackerChange instance under construction
    items_left,   \* the top-level items calculate_change has not visited yet
    log,          \* messages handed to LOGGER.error by calculate_change_set
    result,       \* what calculate_change_set returned, or the exception it raised
    applied,      \* the change set of an earlier run that decl.apply wrote to the model
    cli,          \* __main__.main: its options, locals, output and exit status
    auditor       \* an auditing.ChangeAuditor and the audit events raised so far

vars == <<model, snapshot, config, force, safe_mode, gather_logs, pc, tc,
          items_left, log, result, applied, cli, auditor>>

(***************************************************************************)
(* Generic helpers for sequences, dicts and strings.                       *)
(***************************************************************************)
Range(s) == {s[i] : i \in DOMAIN s}

Has(d, k) == k \in DOMAIN d

Put(d, k, v) == (k :> v) @@ d

Del(d, k) == [x \in DOMAIN d \ {k} |-> d[x]]

EmptyDict == [x \in {} |-> x]

Get(d, k, default) == IF k \in DOMAIN d THEN d[k] ELSE default

IndexOf(s, x) ==
    IF \E i \in DOMAIN s : s[i] = x
    THEN CHOOSE i \in DOMAIN s : s[i] = x /\ \A j \in 1..(i - 1) : s[j] # x
    ELSE 0

RemoveAt(s, i) == SubSeq(s, 1, i - 1) \o SubSeq(s, i + 1, Len(s))

RECURSIVE Flatten(_)
Flatten(ss) == IF ss = <<>> THEN <<>> ELSE Head(ss) \o Flatten(Tail(ss))

\* s * n of Python, by halving n.
Doubled(half, rest) == half \o half \o rest

RECURSIVE Rep(_, _)
Rep(s, n) ==
    IF n = 0 THEN "" ELSE Doubled(Rep(s, n \div 2), IF n % 2 = 1 THEN s ELSE "")

RECURSIVE Join(_, _)
Join(sep, lines) ==
    IF lines = <<>> THEN ""
    ELSE IF Len(lines) = 1 THEN lines[1]
    ELSE lines[1] \o sep \o Join(sep, Tail(lines))

StartsWith(s, p) == Len(s) >= Len(p) /\ SubSeq(s, 1, Len(p)) = p

Contains(s, p) ==
    \E i \in 1..(Len(s) - Len(p) + 1) : SubSeq(s, i, i + Len(p) - 1) = p

(***************************************************************************)
(* References of capellambse.decl.                                         *)
(***************************************************************************)
UUIDReference(u) == [ref |-> "uuid", uuid |-> u]

Promise(p) == [ref |-> "promise", identifier |-> p]

IsRef(x) == "ref" \in DOMAIN x

IsUUIDReference(x) == IsRef(x) /\ x.ref = "uuid"

IsPromise(x) == IsRef(x) /\ x.ref = "promise"

(***************************************************************************)
(* The model: objects by UUID, in document order.                          *)
(***************************************************************************)
None == ""

NoValue == [shape |-> "NoneType", val |-> ""]

Obj(kind, parent, identifier, long_name) ==
    [kind |-> kind, parent |-> parent, identifier |-> identifier,
     long_name |-> long_name, text |-> "", type |-> None,
     definition |-> None, value |-> NoValue, values |-> <<>>,
     data_type |-> None, multi_valued |-> FALSE]

EmptyModel == [objs |-> EmptyDict, order |-> <<>>]

AddObj(m, u, o) == [objs |-> Put(m.objs, u, o), order |-> Append(m.order, u)]

RECURSIVE IsBelow(_, _, _)
IsBelow(m, u, root) ==
    LET p == m.objs[u].parent
    IN  /\ p # None
        /\ p \in DOMAIN m.objs
        /\ (p = root \/ IsBelow(m, p, root))

ChildrenOf(m, p, kinds) ==
    SelectSeq(m.order, LAMBDA u : m.objs[u].parent = p /\ m.objs[u].kind \in kinds)

Identifiers(m, us) == {m.objs[us[i]].identifier : i \in DOMAIN us}

WorkItemKinds == {"Requirement", "Folder"}

AttributeDefinitionKinds == {"AttributeDefinition", "AttributeDefinitionEnumeration"}

AttributeValueKinds ==
    {"StringValueAttribute", "IntegerValueAttribute", "RealValueAttribute",
     "BooleanValueAttribute", "DateValueAttribute", "EnumerationValueAttribute"}

requirements(m, p) == ChildrenOf(m, p, {"Requirement"})

folders(m, p) == ChildrenOf(m, p, {"Folder"})

attributes(m, p) == ChildrenOf(m, p, AttributeValueKinds)

data_type_definitions(m, p) == ChildrenOf(m, p, {"EnumerationDataTypeDefinition"})

requirement_types(m, p) == ChildrenOf(m, p, {"RequirementType"})

attribute_definitions(m, p) == ChildrenOf(m, p, AttributeDefinitionKinds)

enum_values(m, p) == ChildrenOf(m, p, {"EnumValue"})

(***************************************************************************)
(* ElementList.by_<attr>(value, single=True): the one element with that    *)
(* value, KeyError (here None) when there is none or more than one.        *)
(***************************************************************************)
AttrOf(m, u, attr) == IF attr = "uuid" THEN u ELSE m.objs[u][attr]

by_single(m, us, attr, value) ==
    LET hits == SelectSeq(us, LAMBDA u : AttrOf(m, u, attr) = value)
    IN  IF Len(hits) = 1 THEN hits[1] ELSE None

(***************************************************************************)
(* The object finder: model.search of the given types below a root,        *)
(* filtered by one                                                         *)
(* attribute; a KeyError is caught and None returned.                      *)
(***************************************************************************)
search(m, xtypes, below) ==
    SelectSeq(m.order,
              LAMBDA u : /\ m.objs[u].kind \in xtypes
                         /\ (below = None \/ IsBelow(m, u, below)))

find_by(m, value, xtypes, attr, below) ==
    by_single(m, search(m, xtypes, below), attr, value)

find_by_identifier(m, id, xtype, below) ==
    find_by(m, id, {xtype}, "identifier", below)

(***************************************************************************)
(* The snapshot: mappings as sequences of entries keyed by `id`.           *)
(***************************************************************************)
HasKey(entries, id) == \E i \in DOMAIN entries : entries[i].id = id

Entry(entries, id) == entries[CHOOSE i \in DOMAIN entries : entries[i].id = id]

KeysOf(entries) == {entries[i].id : i \in DOMAIN entries}

(***************************************************************************)
(* Attribute values of the snapshot: a native shape and a payload.  The    *)
(* payload of a list is a sequence of option ids, the payload of a scalar  *)
(* is its repr.                                                            *)
(***************************************************************************)
Val(shape, val) == [shape |-> shape, val |-> val]

NumericShapes == {"bool", "int", "float"}

NumOf(v) ==
    CASE v.val \in {"True", "1", "1.0"} -> 1
      [] v.val \in {"False", "0", "0.0"} -> 0
      [] v.val \in {"2", "2.0"} -> 2
      [] OTHER -> 3

\* Python's == on two attribute values: numbers compare by value.
PyEq(a, b) ==
    IF a.shape \in NumericShapes /\ b.shape \in NumericShapes
    THEN NumOf(a) = NumOf(b)
    ELSE a.shape = b.shape /\ a.val = b.val

RECURSIVE ReprItems(_)
ReprItems(xs) ==
    IF xs = <<>> THEN ""
    ELSE "'" \o Head(xs) \o "'" \o (IF Len(xs) > 1 THEN ", " ELSE "") \o ReprItems(Tail(xs))

Repr(v) ==
    IF v.shape = "list" THEN "[" \o ReprItems(v.val) \o "]"
    ELSE IF v.shape = "str" THEN "'" \o v.val \o "'"
    ELSE v.val

\* isinstance(value, _ATTR_VALUE_DEFAULT_MAP[deftype]); bool is a subclass of int.
_ATTR_VALUE_DEFAULT_MAP ==
    [Boolean |-> "bool", Date |-> "datetime", Datetime |-> "datetime",
     Enum |-> "list", Float |-> "float", Integer |-> "int", String |-> "str"]

isinstance(v, type) == v.shape = type \/ (type = "int" /\ v.shape = "bool")

(***************************************************************************)
(* TrackerChange: the fields set by __init__, and the raised exception.    *)
(*   heap: the action dicts of matched work items, by the UUID of their    *)
(*         "parent"; the lists of actions hold them by reference (href),   *)
(*         as Python lists hold dict objects.                              *)
(*   req_deletions: _req_deletions, UUID of the staged child -> the        *)
(*         action it is staged in, in insertion order.                     *)
(***************************************************************************)
NewTrackerChange ==
    [actions |-> <<>>, errors |-> <<>>, log |-> <<>>,
     location_changed |-> {}, req_deletions |-> <<>>, evdeletions |-> {},
     faulty_attribute_definitions |-> {},
     req_module |-> None, reqt_folder |-> None,
     base |-> EmptyDict, visited |-> {}, heap |-> <<>>,
     exc |-> None, exc_message |-> ""]

Raise(t, exc, message) == [t EXCEPT !.exc = exc, !.exc_message = message]

_handle_user_error(t, message) ==
    IF gather_logs
    THEN [t EXCEPT !.errors = Append(@, message)]
    ELSE [t EXCEPT !.log = Append(@, "Invalid module '" \o snapshot.id \o "'. " \o message)]

_ATTR_BLACKLIST == {<<"Type", "Folder">>}

\* _blacklisted(name, value): a scalar is looked up, an iterable needs all
\* of its elements blacklisted (so an empty list is).
_blacklisted(name, value) ==
    IF value.shape = "NoneType" THEN FALSE
    ELSE IF value.shape = "list"
    THEN \A i \in DOMAIN value.val : <<name, value.val[i]>> \in _ATTR_BLACKLIST
    ELSE value.shape = "str" /\ <<name, value.val>> \in _ATTR_BLACKLIST

(***************************************************************************)
(* _check_attribute: "break", "continue" or None, and the recorded error.  *)
(***************************************************************************)
_check_attribute(t, id, value, req_type_id, iitem_id) ==
    IF req_type_id = ""
    THEN [t |-> _handle_user_error(t,
                    "Invalid workitem '" \o iitem_id \o "'. "
                    \o "Missing type but attributes found"),
          check |-> "break"]
    ELSE IF _blacklisted(id, value)
    THEN [t |-> t, check |-> "continue"]
    ELSE IF /\ HasKey(snapshot.requirement_types, req_type_id)
            /\ ~HasKey(Entry(snapshot.requirement_types, req_type_id).attributes, id)
    THEN [t |-> _handle_user_error(t,
                    "Invalid workitem '" \o iitem_id \o "'. "
                    \o "Invalid field found: field identifier '" \o id
                    \o "' not defined in attributes of requirement type '"
                    \o req_type_id \o "'"),
          check |-> "continue"]
    ELSE [t |-> t, check |-> None]

(***************************************************************************)
(* check_attribute_value_is_valid: the builder, or the exception raised    *)
(* (KeyError for an unknown requirement type or attribute name).  The      *)
(* messages are those of the code without the backquotes around            *)
(* data_types, which a TLA+ string cannot hold.                            *)
(***************************************************************************)
check_attribute_value_is_valid(id, value, req_type_id) ==
    IF ~HasKey(snapshot.requirement_types, req_type_id)
    THEN [exc |-> "KeyError", message |-> req_type_id]
    ELSE IF ~HasKey(Entry(snapshot.requirement_types, req_type_id).attributes, id)
    THEN [exc |-> "KeyError", message |-> id]
    ELSE
    LET deftype == Entry(Entry(snapshot.requirement_types, req_type_id).attributes, id).type
        known == deftype \in DOMAIN _ATTR_VALUE_DEFAULT_MAP
        matches_type ==
            IF known THEN isinstance(value, _ATTR_VALUE_DEFAULT_MAP[deftype]) ELSE TRUE
    IN  IF ~matches_type
        THEN [exc |-> "InvalidFieldValue",
              message |-> "Invalid field found: '" \o id
                  \o "'. Not matching expected types: " \o Repr(value)
                  \o " should be of type '" \o _ATTR_VALUE_DEFAULT_MAP[deftype] \o "'"]
        ELSE IF deftype = "Enum"
        THEN IF ~HasKey(snapshot.data_types, id)
             THEN [exc |-> "InvalidFieldValue",
                   message |-> "Invalid field found: '" \o id
                       \o "'. Missing its datatype definition in data_types."]
             ELSE LET options == KeysOf(Entry(snapshot.data_types, id).values)
                  IN  IF Range(value.val) \cap options = {}
                      THEN [exc |-> "InvalidFieldValue",
                            message |-> "Invalid field found: values "
                                \o Repr(value) \o " for '" \o id \o "'"]
                      ELSE [exc |-> None, deftype |-> deftype, key |-> "values",
                            value |-> value]
        ELSE [exc |-> None, deftype |-> deftype, key |-> "value", value |-> value]

(***************************************************************************)
(* attribute_value_create_action: the create-descriptor of an attribute    *)
(* value, or the exception raised.                                         *)
(***************************************************************************)
Lower(deftype) ==
    CASE deftype = "Boolean" -> "boolean"
      [] deftype = "Date" -> "date"
      [] deftype = "Datetime" -> "datetime"
      [] deftype = "Enum" -> "enum"
      [] deftype = "Float" -> "float"
      [] deftype = "Integer" -> "integer"
      [] deftype = "String" -> "string"
      [] OTHER -> deftype

\* One option of an Enum value: a reference to the EnumValue found below
\* the data type definition (or the types folder), else a promise.
enum_value_reference(t, id, evid, edtdef) ==
    LET enumvalue == find_by_identifier(model, evid, "EnumValue",
                         IF edtdef # None THEN edtdef ELSE t.reqt_folder)
    IN  IF enumvalue = None \/ evid \in t.evdeletions
        THEN Promise("EnumValue " \o id \o " " \o evid)
        ELSE UUIDReference(enumvalue)

AttributeDefinitionClass(deftype) ==
    IF deftype = "Enum" THEN "AttributeDefinitionEnumeration" ELSE "AttributeDefinition"

attribute_value_create_action(t, id, value, req_type_id) ==
    LET attr_def_id == id \o " " \o req_type_id
        descriptor(builder, definition, promise_id, values) ==
            IF definition = None /\ promise_id \in t.faulty_attribute_definitions
            THEN [exc |-> "InvalidFieldValue",
                  message |-> "Invalid field found: No AttributeDefinition '"
                      \o id \o "' promised."]
            ELSE [exc |-> None,
                  action |->
                      ("_type" :> Lower(builder.deftype))
                      @@ ("definition" :> (IF definition = None
                                           THEN Promise(promise_id)
                                           ELSE UUIDReference(definition)))
                      @@ (IF values # <<>>
                          THEN builder.key :> values
                          ELSE builder.key :> builder.value)]
        references(edtdef) ==
            [i \in DOMAIN value.val |-> enum_value_reference(t, id, value.val[i], edtdef)]
        built(builder, deftype) ==
            descriptor(builder,
                       find_by_identifier(model, attr_def_id, deftype, t.reqt_folder),
                       deftype \o " " \o attr_def_id,
                       IF builder.deftype = "Enum"
                       THEN references(find_by_identifier(model, id,
                                "EnumerationDataTypeDefinition", t.reqt_folder))
                       ELSE <<>>)
        checked(builder) ==
            IF builder.exc # None THEN builder
            ELSE built(builder, AttributeDefinitionClass(builder.deftype))
    IN  checked(check_attribute_value_is_valid(id, value, req_type_id))

\* _try_create_attribute_value: appends to `actions`; only InvalidFieldValue
\* is caught, any other exception is raised further.
_try_create_attribute_value_Dropped(t, id, value, req_type_id, iitem_id, actions) ==
    [t |-> t, actions |-> actions]

_try_create_attribute_value(t, id, value, req_type_id, iitem_id, actions) ==
    LET tried(r) ==
            IF r.exc = None
            THEN [t |-> t, actions |-> Append(actions, r.action)]
            ELSE IF r.exc = "InvalidFieldValue"
            THEN [t |-> _handle_user_error(t,
                            "Invalid workitem '" \o iitem_id \o "'. " \o r.message),
                  actions |-> actions]
            ELSE [t |-> Raise(t, r.exc, r.message), actions |-> actions]
    IN  tried(attribute_value_create_action(t, id, value, req_type_id))

(***************************************************************************)
(* attribute_value_mod_action: a modify action, None (no `action` key      *)
(* set: changed = FALSE), or the exception raised.  The new list of an     *)
(* Enum value is built from a Python set; its elements are listed here in  *)
(* the order of the snapshot list.                                         *)
(***************************************************************************)
RECURSIVE Dedup(_)
Dedup(xs) ==
    IF xs = <<>> THEN <<>>
    ELSE LET rest == Dedup(SubSeq(xs, 1, Len(xs) - 1))
             x == xs[Len(xs)]
         IN  IF x \in Range(rest) THEN rest ELSE Append(rest, x)

attribute_value_mod_action(t, req, id, valueid, req_type_id) ==
    LET new_values(actual, options) ==
            \* create | (actual - delete), in the order of the snapshot list
            LET elems == Dedup(SelectSeq(valueid.val,
                             LAMBDA v : v \in (Range(valueid.val) \ actual)
                                            \cup (actual \cap Range(valueid.val))))
            IN  [i \in DOMAIN elems |->
                    IF elems[i] \notin Identifiers(model, options)
                    THEN Promise("EnumValue " \o id \o " " \o elems[i])
                    ELSE UUIDReference(
                             by_single(model, options, "identifier", elems[i]))]
        enum(attr, dtype, actual) ==
            IF dtype = None
            THEN [exc |-> "AttributeError", message |-> "values"]
            ELSE [exc |-> None,
                  changed |-> (Range(valueid.val) \ actual) # {}
                              \/ (actual \ Range(valueid.val)) # {},
                  action |-> [parent |-> UUIDReference(attr),
                              modify |-> [values |->
                                  new_values(actual, enum_values(model, dtype))]]]
        found(attrdef, attr) ==
            IF attr = None THEN [exc |-> "KeyError", message |-> "definition"]
            ELSE IF model.objs[attr].kind = "EnumerationValueAttribute"
            THEN enum(attr, model.objs[attrdef].data_type,
                      Identifiers(model, model.objs[attr].values))
            ELSE [exc |-> None,
                  changed |-> ~PyEq(model.objs[attr].value, valueid),
                  action |-> [parent |-> UUIDReference(attr),
                              modify |-> [value |-> valueid]]]
        defined(attrdef) ==
            found(attrdef, by_single(model, attributes(model, req), "definition", attrdef))
        checked(builder) ==
            IF builder.exc # None THEN builder
            ELSE defined(find_by_identifier(model, id \o " " \o req_type_id,
                             AttributeDefinitionClass(builder.deftype), t.reqt_folder))
    IN  checked(check_attribute_value_is_valid(id, valueid, req_type_id))

(***************************************************************************)
(* _compare_simple_attributes: the differing plain fields of a work item   *)
(* (every key but id, type, attributes, children) or of a requirement      *)
(* type (every key but attributes).  getattr raises AttributeError for a   *)
(* key the model class does not define.  helpers.repair_html closes an     *)
(* unclosed paragraph.                                                     *)
(***************************************************************************)
repair_html(text) ==
    IF StartsWith(text, "<p>") /\ ~Contains(text, "</p>")
    THEN text \o "</p>"
    ELSE text

_compare_simple_attributes(req, item) ==
    LET long_name == IF model.objs[req].long_name # item.long_name
                     THEN [long_name |-> item.long_name] ELSE EmptyDict
        text == IF "text" \in DOMAIN item /\ item.text # None
                   /\ model.objs[req].text # repair_html(item.text)
                THEN [text |-> item.text] ELSE EmptyDict
    IN  IF "unknown_key" \in DOMAIN item /\ item.unknown_key # None
        THEN [exc |-> "AttributeError",
              message |-> item.unknown_key \o " isn't defined on "
                          \o model.objs[req].kind]
        ELSE [exc |-> None, mods |-> long_name @@ text]

(***************************************************************************)
(* Dict helpers of change.py.  The values under extend, modify and delete  *)
(* are the mappings; every other value (a reference, a list) replaces.     *)
(***************************************************************************)
RECURSIVE _deep_update(_, _)
_deep_update(source, overrides) ==
    [key \in DOMAIN source \cup DOMAIN overrides |->
        IF key \notin DOMAIN overrides THEN source[key]
        ELSE IF key \in {"extend", "modify", "delete"} /\ overrides[key] # EmptyDict
        THEN _deep_update(Get(source, key, EmptyDict), overrides[key])
        ELSE overrides[key]]

_add_action_safely(base, first_key, second_key, action) ==
    IF Has(base, first_key) /\ Has(base[first_key], second_key)
    THEN [base EXCEPT ![first_key][second_key] = Append(@, action)]
    ELSE _deep_update(base, first_key :> (second_key :> <<action>>))

RECURSIVE FoldLeft(_, _, _)
FoldLeft(Op(_, _), acc, s) ==
    IF s = <<>> THEN acc ELSE FoldLeft(Op, Op(acc, Head(s)), Tail(s))

(***************************************************************************)
(* Schema reconciler: create-descriptors.                                  *)
(***************************************************************************)
REQ_TYPES_FOLDER_NAME == "Types"

TYPES_FOLDER_IDENTIFIER == "-2"

data_type_create_action(data_type_id, data_type_definition) ==
    [identifier |-> data_type_id,
     long_name |-> data_type_definition.long_name,
     values |-> [i \in DOMAIN data_type_definition.values |->
                    [identifier |-> data_type_definition.values[i].id,
                     long_name |-> data_type_definition.values[i].long_name,
                     promise_id |-> "EnumValue " \o data_type_id \o " "
                                    \o data_type_definition.values[i].id]],
     promise_id |-> "EnumerationDataTypeDefinition " \o data_type_id,
     _type |-> "EnumerationDataTypeDefinition"]

yield_data_type_definition_create_actions ==
    [i \in DOMAIN snapshot.data_types |->
        data_type_create_action(snapshot.data_types[i].id, snapshot.data_types[i])]

\* multi_values of a snapshot definition: "absent", "True" or "False".
multi_valued_on_create(item) == item.multi_values # "absent"

attribute_definition_create_action(t, id, item, req_type_id) ==
    LET identifier == id \o " " \o req_type_id
        isEnum == item.type = "Enum"
        cls == IF isEnum THEN "AttributeDefinitionEnumeration"
               ELSE "AttributeDefinition"
        etdef == find_by_identifier(model, id, "EnumerationDataTypeDefinition",
                                    t.reqt_folder)
        promise_id == "EnumerationDataTypeDefinition " \o id
        base == [identifier |-> identifier, long_name |-> item.long_name,
                 _type |-> cls, promise_id |-> cls \o " " \o identifier]
    IN  IF ~isEnum THEN [t |-> t, exc |-> None, action |-> base]
        ELSE IF etdef = None /\ ~HasKey(snapshot.data_types, id)
        THEN [t |-> [t EXCEPT !.faulty_attribute_definitions = @ \cup {promise_id}],
              exc |-> "InvalidAttributeDefinition",
              message |-> "Invalid " \o cls \o " found: '" \o id
                          \o "'. Missing its datatype definition in data_types."]
        ELSE [t |-> t, exc |-> None,
              action |-> base
                  @@ [data_type |-> IF etdef = None THEN Promise(promise_id)
                                    ELSE UUIDReference(etdef),
                      multi_valued |-> multi_valued_on_create(item)]]

requirement_type_create_action(t, identifier, req_type) ==
    LET defined(acc, r) ==
            IF r.exc = None
            THEN [t |-> r.t, defs |-> Append(acc.defs, r.action)]
            ELSE [t |-> _handle_user_error(r.t,
                            "In RequirementType '" \o req_type.long_name
                            \o "': " \o r.message),
                  defs |-> acc.defs]
        step(acc, adef) ==
            defined(acc, attribute_definition_create_action(
                             acc.t, adef.id, adef, identifier))
        descriptor(done) ==
            [t |-> done.t,
             action |-> [identifier |-> identifier,
                         long_name |-> req_type.long_name,
                         promise_id |-> "RequirementType " \o identifier,
                         attribute_definitions |-> done.defs]]
    IN  descriptor(FoldLeft(step, [t |-> t, defs |-> <<>>], req_type.attributes))

yield_requirement_type_create_actions(t) ==
    LET yielded(acc, r) == [t |-> r.t, actions |-> Append(acc.actions, r.action)]
        step(acc, req_type) ==
            yielded(acc, requirement_type_create_action(acc.t, req_type.id, req_type))
    IN  FoldLeft(step, [t |-> t, actions |-> <<>>], snapshot.requirement_types)

requirement_types_folder_create_action(t, base) ==
    LET folder(req_types) ==
            [t |-> req_types.t,
             base |-> Put(base, "extend",
                 [requirement_types_folders |->
                     <<[long_name |-> REQ_TYPES_FOLDER_NAME,
                        identifier |-> TYPES_FOLDER_IDENTIFIER,
                        data_type_definitions |->
                            yield_data_type_definition_create_actions,
                        requirement_types |-> req_types.actions]>>])]
    IN  folder(yield_requirement_type_create_actions(t))

(***************************************************************************)
(* Schema reconciler: an existing CapellaTypesFolder.                      *)
(***************************************************************************)
_populate_ev_deletions(t, refs) ==
    [t EXCEPT !.evdeletions =
        @ \cup UNION {Identifiers(model, enum_values(model, refs[i].uuid)) :
                        i \in DOMAIN refs}]

\* The reconciliation that takes every data-type definition of the snapshot
\* for a new one.
data_type_mod_action_AlwaysNew(t, id, ddef) ==
    [t |-> t, action |-> data_type_create_action(id, ddef)]

\* A create-descriptor (no "parent"), a modify action, or None (EmptyDict),
\* together with the Enum values recorded as deleted.
data_type_mod_action(t, id, ddef) ==
    LET dtdef == by_single(model, data_type_definitions(model, t.reqt_folder),
                           "identifier", id)
    IN  IF dtdef = None
        THEN [t |-> t, action |-> data_type_create_action(id, ddef)]
        ELSE
        LET evs == enum_values(model, dtdef)
            mods == IF model.objs[dtdef].long_name # ddef.long_name
                    THEN [modify |-> [long_name |-> ddef.long_name]]
                    ELSE EmptyDict
            creations == SelectSeq(ddef.values,
                             LAMBDA value : value.id \notin Identifiers(model, evs))
            action == data_type_create_action(id,
                          [long_name |-> ddef.long_name, values |-> creations])
            extend == IF creations # <<>>
                      THEN [extend |-> [values |-> action.values]]
                      ELSE EmptyDict
            deletions == Identifiers(model, evs) \ KeysOf(ddef.values)
            gone == SelectSeq(evs, LAMBDA ev : model.objs[ev].identifier \in deletions)
            delete == IF deletions # {}
                      THEN [delete |->
                               [values |-> [i \in DOMAIN gone |-> UUIDReference(gone[i])]]]
                      ELSE EmptyDict
            base == [parent |-> UUIDReference(dtdef)] @@ mods @@ extend @@ delete
        IN  [t |-> [t EXCEPT !.evdeletions = @ \cup deletions],
             action |-> IF DOMAIN base = {"parent"} THEN EmptyDict ELSE base]

data_type_definition_mod_actions(t) ==
    LET gone == SelectSeq(data_type_definitions(model, t.reqt_folder),
                    LAMBDA u : ~HasKey(snapshot.data_types, model.objs[u].identifier))
        dt_defs_deletions == [i \in DOMAIN gone |-> UUIDReference(gone[i])]
        sorted(acc, r) ==
            IF r.action = EmptyDict
            THEN [acc EXCEPT !.t = r.t]
            ELSE IF Has(r.action, "parent")
            THEN [acc EXCEPT !.t = r.t, !.mods = Append(@, r.action)]
            ELSE [acc EXCEPT !.t = r.t, !.creations = Append(@, r.action)]
        step(acc, ddef) == sorted(acc, data_type_mod_action(acc.t, ddef.id, ddef))
        folder(done) ==
            [t |-> [done.t EXCEPT !.actions = @ \o done.mods],
             base |-> [parent |-> UUIDReference(t.reqt_folder)]
                      @@ (IF done.creations # <<>>
                          THEN [extend |-> [data_type_definitions |-> done.creations]]
                          ELSE EmptyDict)
                      @@ (IF dt_defs_deletions # <<>>
                          THEN [delete |-> [data_type_definitions |-> dt_defs_deletions]]
                          ELSE EmptyDict)]
    IN  folder(FoldLeft(step,
                        [t |-> _populate_ev_deletions(t, dt_defs_deletions),
                         mods |-> <<>>, creations |-> <<>>],
                        snapshot.data_types))

requirement_type_delete_actions(t) ==
    LET gone == SelectSeq(requirement_types(model, t.reqt_folder),
                    LAMBDA u : ~HasKey(snapshot.requirement_types,
                                       model.objs[u].identifier))
    IN  [i \in DOMAIN gone |-> UUIDReference(gone[i])]

\* data.get("multi_values", False) as a BOOLEAN; the variant reads the
\* default as True.
multi_values_or_True(data) == data.multi_values # "False"

multi_values_or_False(data) == data.multi_values = "True"

(***************************************************************************)
(* attribute_definition_mod_action.  Its try block catches every KeyError, *)
(* the one of by_identifier as well as the one of data["multi_values"],    *)
(* and answers it with the create action.                                  *)
(***************************************************************************)
attribute_definition_mod_action(t, reqtype, identifier, data) ==
    LET handled(r) ==
            IF r.exc = None
            THEN [t |-> r.t, action |-> r.action]
            ELSE [t |-> _handle_user_error(r.t,
                            "In RequirementType '"
                            \o model.objs[reqtype].long_name \o "': "
                            \o r.message),
                  action |-> EmptyDict]
        modify(attrdef, mods) ==
            IF mods = EmptyDict
            THEN [t |-> t, action |-> EmptyDict]
            ELSE [t |-> t,
                  action |-> [parent |-> UUIDReference(attrdef), modify |-> mods]]
        compared(attrdef, a, isEnum, multi_differs) ==
            IF attrdef # None /\ isEnum /\ a.kind # "AttributeDefinitionEnumeration"
            THEN [t |-> Raise(t, "AttributeError", "data_type"), action |-> EmptyDict]
            ELSE IF attrdef = None \/ (multi_differs /\ data.multi_values = "absent")
            THEN handled(attribute_definition_create_action(
                             t, identifier, data, model.objs[reqtype].identifier))
            ELSE modify(attrdef,
                     (IF a.long_name # data.long_name
                      THEN [long_name |-> data.long_name] ELSE EmptyDict)
                     @@ (IF isEnum /\ (a.data_type = None
                                       \/ model.objs[a.data_type].identifier # identifier)
                         THEN [data_type |-> identifier] ELSE EmptyDict)
                     @@ (IF multi_differs
                         THEN [multi_valued |-> data.multi_values = "True"]
                         ELSE EmptyDict))
        found(attrdef) ==
            IF attrdef = None THEN compared(attrdef, None, FALSE, FALSE)
            ELSE compared(attrdef, model.objs[attrdef], data.type = "Enum",
                          data.type = "Enum"
                          /\ model.objs[attrdef].multi_valued # multi_values_or_False(data))
    IN  found(by_single(model, attribute_definitions(model, reqtype), "identifier",
                        identifier \o " " \o model.objs[reqtype].identifier))

(***************************************************************************)
(* requirement_type_mod_action: appends the actions of an existing         *)
(* requirement type to self.actions and returns None, or returns the       *)
(* create-descriptor of a missing one.                                     *)
(***************************************************************************)
requirement_type_mod_action(t, identifier, item) ==
    LET sorted(acc, r) ==
            IF r.action = EmptyDict
            THEN [acc EXCEPT !.t = r.t]
            ELSE IF Has(r.action, "parent")
            THEN [acc EXCEPT !.t = r.t, !.mods = Append(@, r.action)]
            ELSE [acc EXCEPT !.t = r.t, !.creations = Append(@, r.action)]
        appended(done, base) ==
            IF done.t.exc # None
            THEN [t |-> done.t, action |-> EmptyDict]
            ELSE [t |-> [done.t EXCEPT !.actions =
                            @ \o (IF DOMAIN base # {"parent"} THEN <<base>> ELSE <<>>)
                              \o done.mods],
                  action |-> EmptyDict]
        reconciled(reqtype, mods, attr_defs_deletions, done) ==
            appended(done,
                [parent |-> UUIDReference(reqtype)]
                @@ (IF mods # EmptyDict THEN [modify |-> mods] ELSE EmptyDict)
                @@ (IF done.creations # <<>>
                    THEN [extend |-> [attribute_definitions |-> done.creations]]
                    ELSE EmptyDict)
                @@ (IF attr_defs_deletions # <<>>
                    THEN [delete |-> [attribute_definitions |-> attr_defs_deletions]]
                    ELSE EmptyDict))
        deletions(reqtype, attribute_definition_ids) ==
            LET gone == SelectSeq(attribute_definitions(model, reqtype),
                            LAMBDA u : model.objs[u].identifier
                                       \notin attribute_definition_ids)
            IN  [i \in DOMAIN gone |-> UUIDReference(gone[i])]
        found(reqtype) ==
            LET step(acc, data) ==
                    IF acc.t.exc # None THEN acc
                    ELSE sorted(acc, attribute_definition_mod_action(
                                         acc.t, reqtype, data.id, data))
            IN  IF reqtype = None
                THEN requirement_type_create_action(t, identifier, item)
                ELSE reconciled(reqtype,
                         _compare_simple_attributes(reqtype, item).mods,
                         deletions(reqtype,
                             {item.attributes[i].id \o " "
                              \o model.objs[reqtype].identifier :
                                 i \in DOMAIN item.attributes}),
                         FoldLeft(step, [t |-> t, mods |-> <<>>, creations |-> <<>>],
                                  item.attributes))
    IN  found(by_single(model, requirement_types(model, t.reqt_folder),
                        "identifier", identifier))

(***************************************************************************)
(* Work-item reconciler.                                                   *)
(*                                                                         *)
(* A snapshot work item is a record with id, long_name, type ("" when the  *)
(* key is absent), attributes (a sequence of [id, value]) and, for a       *)
(* folder only, the field children.                                        *)
(***************************************************************************)
\* The classification by a non-empty list of children, which the docstring of
\* yield_requirements_create_actions describes and the code does not apply.
IsFolderItem_NonEmpty(item) == "children" \in DOMAIN item /\ item.children # <<>>

IsFolderItem(item) == "children" \in DOMAIN item

ChildrenOfItem(item) == IF IsFolderItem(item) THEN item.children ELSE <<>>

NoParent == [ref |-> "none"]

\* A base that staged deletions lives on the heap, and lists hold it by
\* reference, as self._req_deletions and self.actions share one dict.
HRef(h) == [href |-> h]

IsHRef(x) == "href" \in DOMAIN x

Deref(t, x) == IF IsHRef(x) THEN t.heap[x.href] ELSE x

Materialise(t, xs) == [i \in DOMAIN xs |-> Deref(t, xs[i])]

\* self._req_deletions[uuid] = base: a dict keeps the position of a key.
StageDeletion(staged, uuid, h) ==
    IF \E i \in DOMAIN staged : staged[i].uuid = uuid
    THEN [i \in DOMAIN staged |->
             IF staged[i].uuid = uuid THEN [uuid |-> uuid, href |-> h]
             ELSE staged[i]]
    ELSE Append(staged, [uuid |-> uuid, href |-> h])

(***************************************************************************)
(* invalidate_deletion: every KeyError is swallowed; list.remove of a      *)
(* reference that is not in the list raises ValueError, which is not.      *)
(***************************************************************************)
invalidate_deletion(t, requirement) ==
    LET key == IF model.objs[requirement].kind = "Folder" THEN "folders"
               ELSE "requirements"
        ref == UUIDReference(requirement)
        staged == SelectSeq(t.req_deletions, LAMBDA e : e.uuid = requirement)
    IN  IF staged = <<>> THEN t
        ELSE
        LET h == staged[1].href
            base == t.heap[h]
        IN  IF ~Has(base, "delete") THEN t
            ELSE IF ~Has(base.delete, key) THEN t
            ELSE IF IndexOf(base.delete[key], ref) = 0
            THEN Raise(t, "ValueError", "list.remove(x): x not in list")
            ELSE
            LET rest == RemoveAt(base.delete[key], IndexOf(base.delete[key], ref))
                deletions == IF rest = <<>> THEN Del(base.delete, key)
                             ELSE Put(Del(base.delete, key), key, rest)
                newbase == IF deletions = EmptyDict THEN Del(base, "delete")
                           ELSE Put(Del(base, "delete"), "delete", deletions)
            IN  [t EXCEPT !.heap[h] = newbase]

\* The variant lists every child, whatever child_ids holds.
make_requirement_delete_actions_Unfiltered(req, child_ids, key) ==
    LET kids == IF key = "folders" THEN folders(model, req)
                ELSE requirements(model, req)
    IN  [i \in DOMAIN kids |-> UUIDReference(kids[i])]

make_requirement_delete_actions(req, child_ids, key) ==
    LET kids == IF key = "folders" THEN folders(model, req)
                ELSE requirements(model, req)
        gone == SelectSeq(kids, LAMBDA u : model.objs[u].identifier \notin child_ids)
    IN  [i \in DOMAIN gone |-> UUIDReference(gone[i])]

req_delete_actions(t, visited, attr_name) ==
    LET dels == make_requirement_delete_actions(t.req_module, visited, attr_name)
    IN  IF dels = <<>> THEN [parent |-> UUIDReference(t.req_module)]
        ELSE [parent |-> UUIDReference(t.req_module),
              delete |-> (attr_name :> dels)]

(***************************************************************************)
(* The attribute loop of yield_requirements_create_actions.                *)
(***************************************************************************)
create_attributes(t, item) ==
    LET tried(acc, r) == [acc EXCEPT !.t = r.t, !.attributes = r.actions]
        checked(acc, attr, c) ==
            IF c.check = "break" THEN [acc EXCEPT !.t = c.t, !.break = TRUE]
            ELSE IF c.check = "continue" THEN [acc EXCEPT !.t = c.t]
            ELSE tried(acc, _try_create_attribute_value(
                                c.t, attr.id, attr.value, item.type, item.id,
                                acc.attributes))
        step(acc, attr) ==
            IF acc.break \/ acc.t.exc # None THEN acc
            ELSE checked(acc, attr,
                         _check_attribute(acc.t, attr.id, attr.value, item.type, item.id))
    IN  FoldLeft(step, [t |-> t, break |-> FALSE, attributes |-> <<>>],
                 item.attributes)

(***************************************************************************)
(* The attribute loop of yield_requirements_mod_actions.                   *)
(***************************************************************************)
mod_attributes(t, req, item, type_changed) ==
    LET created(acc, r) == [acc EXCEPT !.t = r.t, !.creations = r.actions]
        create(acc, attr, t1) ==
            created(acc, _try_create_attribute_value(
                             t1, attr.id, attr.value, item.type, item.id,
                             acc.creations))
        modified(acc, attr, t1, m) ==
            IF m.exc = "KeyError" THEN create(acc, attr, t1)
            ELSE IF m.exc = "InvalidFieldValue"
            THEN [acc EXCEPT !.t = _handle_user_error(t1,
                                 "Invalid workitem '" \o item.id \o "'. "
                                 \o m.message)]
            ELSE IF m.exc # None
            THEN [acc EXCEPT !.t = Raise(t1, m.exc, m.message)]
            ELSE IF m.changed
            THEN [acc EXCEPT !.t = t1, !.modifications = Append(@, m.action)]
            ELSE [acc EXCEPT !.t = t1]
        checked(acc, attr, c) ==
            IF c.check = "break" THEN [acc EXCEPT !.t = c.t, !.break = TRUE]
            ELSE IF c.check = "continue" THEN [acc EXCEPT !.t = c.t]
            ELSE IF type_changed THEN create(acc, attr, c.t)
            ELSE modified(acc, attr, c.t,
                          attribute_value_mod_action(c.t, req, attr.id, attr.value,
                                                     item.type))
        step(acc, attr) ==
            IF acc.break \/ acc.t.exc # None THEN acc
            ELSE checked(acc, attr,
                         _check_attribute(acc.t, attr.id, attr.value, item.type, item.id))
    IN  FoldLeft(step, [t |-> t, break |-> FALSE, creations |-> <<>>,
                        modifications |-> <<>>],
                 item.attributes)

(***************************************************************************)
(* yield_requirements_create_actions and yield_requirements_mod_actions.   *)
(* Both are generators.  The first is advanced with next() where it is     *)
(* created, so its body has run up to the yield of the create-descriptor   *)
(* (`base`); the rest is `child_mods`.  The second one runs where its      *)
(* caller consumes it with list.extend; `yielded` is what it yields.  An   *)
(* exception raised in a body is recorded in t.exc and ends the run.       *)
(***************************************************************************)
\* Lines 966-968 and 1004-1012 of yield_requirements_mod_actions: every
\* attribute value when the type differs, else those whose definition is none
\* of "<attribute> <type>" for the attributes of the item.
attributes_deletions_WithRejected(req, item, type_differs) ==
    LET existing == attributes(model, req)
    IN  [i \in DOMAIN existing |-> UUIDReference(existing[i])]

attributes_deletions(req, item, type_differs) ==
    LET existing == attributes(model, req)
        undefined == SelectSeq(existing,
            LAMBDA a : model.objs[model.objs[a].definition].identifier
                       \notin {item.attributes[i].id \o " " \o item.type :
                                  i \in DOMAIN item.attributes})
    IN  IF type_differs /\ existing # <<>>
        THEN [i \in DOMAIN existing |-> UUIDReference(existing[i])]
        ELSE [i \in DOMAIN undefined |-> UUIDReference(undefined[i])]

\* Lines 1100-1108 of yield_requirements_mod_actions: the action of the work
\* item itself, if any, then attributes_modifications, then child_mods.
yield_order_ChildrenFirst(own, modifications, child_mods) ==
    child_mods \o modifications \o own

yield_order(own, modifications, child_mods) == own \o modifications \o child_mods

RECURSIVE yield_requirements_create_actions(_, _)
RECURSIVE yield_requirements_mod_actions(_, _, _, _)

yield_requirements_create_actions(t, item) ==
    LET identifier == item.id
        type_reference(reqtype) ==
            IF reqtype = None THEN Promise("RequirementType " \o item.type)
            ELSE UUIDReference(reqtype)
        descriptor(attrs, done) ==
            [t |-> done.t,
             base |-> [long_name |-> item.long_name, identifier |-> identifier]
                 @@ (IF "text" \in DOMAIN item /\ item.text # ""
                     THEN [text |-> item.text] ELSE EmptyDict)
                 @@ (IF attrs.attributes # <<>>
                     THEN [attributes |-> attrs.attributes] ELSE EmptyDict)
                 @@ (IF item.type # ""
                     THEN [type |-> type_reference(
                              find_by_identifier(model, item.type, "RequirementType",
                                                 t.reqt_folder))]
                     ELSE EmptyDict)
                 @@ (IF done.lists.requirements # <<>>
                     THEN [requirements |-> done.lists.requirements] ELSE EmptyDict)
                 @@ (IF done.lists.folders # <<>>
                     THEN [folders |-> done.lists.folders] ELSE EmptyDict),
             child_mods |-> done.child_mods]
        created(acc, key, r) ==
            [t |-> r.t,
             lists |-> [acc.lists EXCEPT ![key] = Append(@, r.base)],
             child_mods |-> acc.child_mods \o r.child_mods]
        modded(acc, key, creq, r) ==
            [t |-> r.t,
             lists |-> [acc.lists EXCEPT ![key] = Append(@, UUIDReference(creq))],
             child_mods |-> acc.child_mods \o r.yielded]
        child_step(acc, child, key, creq) ==
            IF creq = None
            THEN created(acc, key, yield_requirements_create_actions(acc.t, child))
            ELSE modded(acc, key, creq,
                        yield_requirements_mod_actions(acc.t, creq, child,
                                                       Promise(identifier)))
        step(acc, child) ==
            IF acc.t.exc # None THEN acc
            ELSE child_step(acc, child,
                     IF IsFolderItem(child) THEN "folders" ELSE "requirements",
                     find_by_identifier(model, child.id,
                         IF IsFolderItem(child) THEN "Folder" ELSE "Requirement",
                         None))
        with_children(attrs) ==
            descriptor(attrs,
                FoldLeft(step,
                         [t |-> attrs.t,
                          lists |-> [requirements |-> <<>>, folders |-> <<>>],
                          child_mods |-> <<>>],
                         ChildrenOfItem(item)))
    IN  with_children(create_attributes(t, item))

\* The stages of the body are local operators, listed from the last one (the
\* yields, lines 1097-1108) back to the first (lines 935-944).
yield_requirements_mod_actions(t, req, item, parent) ==
    LET o == model.objs[req]
        req_type_id == item.type
        stopped(t1) == [t |-> t1, yielded |-> <<>>]
        \* Lines 1097-1108: stage the deletions of children, then yield.
        staged(done, base, dels, modifications) ==
            IF dels = <<>>
            THEN [t |-> done.t,
                  yielded |-> yield_order(
                                  IF DOMAIN base # {"parent"} THEN <<base>> ELSE <<>>,
                                  modifications, done.child_mods)]
            ELSE [t |-> [done.t EXCEPT
                            !.heap = Append(@, base),
                            !.req_deletions =
                                FoldLeft(LAMBDA staging, ref :
                                             StageDeletion(staging, ref.uuid,
                                                           Len(done.t.heap) + 1),
                                         @, dels)],
                  yielded |-> yield_order(<<HRef(Len(done.t.heap) + 1)>>,
                                          modifications, done.child_mods)]
        \* Lines 1084-1096.
        with_deletions(done, base, fold_dels, req_dels, modifications) ==
            staged(done,
                   IF fold_dels \o req_dels # <<>>
                   THEN _deep_update(base,
                            [delete |->
                                (IF fold_dels # <<>> THEN [folders |-> fold_dels]
                                 ELSE EmptyDict)
                                @@ (IF req_dels # <<>> THEN [requirements |-> req_dels]
                                    ELSE EmptyDict)])
                   ELSE base,
                   req_dels \o fold_dels, modifications)
        \* Lines 1076-1082.
        extended(base, creations) ==
            IF creations # EmptyDict THEN _deep_update(base, [extend |-> creations])
            ELSE base
        children_done(done, base, modifications) ==
            IF done.t.exc # None THEN stopped(done.t)
            ELSE with_deletions(done,
                     extended(base,
                         (IF done.containers.requirements # <<>>
                          THEN [requirements |-> done.containers.requirements]
                          ELSE EmptyDict)
                         @@ (IF done.containers.folders # <<>>
                             THEN [folders |-> done.containers.folders]
                             ELSE EmptyDict)),
                     make_requirement_delete_actions(
                         req, done.ids.folders \cup done.t.location_changed, "folders"),
                     make_requirement_delete_actions(
                         req, done.ids.requirements \cup done.t.location_changed,
                         "requirements"),
                     modifications)
        \* Lines 1037-1074: one child of a folder.
        created(acc, key, r) ==
            [acc EXCEPT !.t = r.t,
                        !.containers[key] = Append(@, r.base),
                        !.child_mods = @ \o r.child_mods]
        modded(acc, key, creq, r) ==
            [acc EXCEPT !.t = r.t,
                        !.containers[key] = IF model.objs[creq].parent # req
                                            THEN Append(@, UUIDReference(creq))
                                            ELSE @,
                        !.child_mods = @ \o r.yielded]
        child_step(acc, child, key, creq) ==
            IF creq = None
            THEN created(acc, key, yield_requirements_create_actions(acc.t, child))
            ELSE modded(acc, key, creq,
                        yield_requirements_mod_actions(acc.t, creq, child,
                                                       UUIDReference(req)))
        step(acc, child) ==
            IF acc.t.exc # None THEN acc
            ELSE child_step(
                     [acc EXCEPT !.ids[IF IsFolderItem(child) THEN "folders"
                                       ELSE "requirements"] = @ \cup {child.id}],
                     child,
                     IF IsFolderItem(child) THEN "folders" ELSE "requirements",
                     find_by_identifier(model, child.id,
                         IF IsFolderItem(child) THEN "Folder" ELSE "Requirement",
                         None))
        \* Lines 1021-1036.
        relocated(t2, base, modifications) ==
            IF t2.exc # None THEN stopped(t2)
            ELSE IF o.kind # "Folder"
            THEN staged([t |-> t2, child_mods |-> <<>>], base, <<>>, modifications)
            ELSE children_done(
                     FoldLeft(step,
                         [t |-> t2,
                          ids |-> [requirements |-> {}, folders |-> {}],
                          containers |-> [requirements |-> <<>>, folders |-> <<>>],
                          child_mods |-> <<>>],
                         ChildrenOfItem(item)),
                     base, modifications)
        moved == UUIDReference(o.parent)
                 # (IF parent = NoParent THEN UUIDReference(t.req_module) ELSE parent)
        \* Lines 1014-1019.
        assembled(mods, creations, deletions) ==
            [parent |-> UUIDReference(req)]
            @@ (IF mods # EmptyDict THEN [modify |-> mods] ELSE EmptyDict)
            @@ (IF creations # <<>> THEN [extend |-> [attributes |-> creations]]
                ELSE EmptyDict)
            @@ (IF deletions # <<>> THEN [delete |-> [attributes |-> deletions]]
                ELSE EmptyDict)
        with_attributes(mods, type_differs, attrs) ==
            IF attrs.t.exc # None THEN stopped(attrs.t)
            ELSE relocated(
                     IF moved
                     THEN invalidate_deletion(
                              [attrs.t EXCEPT !.location_changed = @ \cup {o.identifier}],
                              req)
                     ELSE attrs.t,
                     assembled(mods, attrs.creations,
                               attributes_deletions(req, item, type_differs)),
                     attrs.modifications)
        \* Lines 946-1002.
        type_reference(reqtype) ==
            IF reqtype = None THEN Promise(req_type_id) ELSE UUIDReference(reqtype)
        typed(simple_mods, type_differs) ==
            IF type_differs /\ req_type_id # ""
               /\ ~HasKey(snapshot.requirement_types, req_type_id)
            THEN stopped(Raise(t, "InvalidWorkItemType",
                     "Faulty workitem in snapshot: Unknown workitem-type '"
                     \o req_type_id \o "'"))
            ELSE with_attributes(
                     IF type_differs
                     THEN simple_mods
                          @@ [type |-> type_reference(
                                 find_by_identifier(model, req_type_id,
                                     "RequirementType", t.reqt_folder))]
                     ELSE simple_mods,
                     type_differs,
                     mod_attributes(t, req, item, type_differs))
        \* Lines 935-944.
        compared(cmp) ==
            IF cmp.exc # None
            THEN stopped(_handle_user_error(t,
                     "Invalid workitem '" \o item.id \o "'. " \o cmp.message))
            ELSE IF o.type = None
            THEN stopped(Raise(t, "AttributeError",
                     "'NoneType' object has no attribute 'identifier'"))
            ELSE typed(cmp.mods, req_type_id # model.objs[o.type].identifier)
    IN  compared(_compare_simple_attributes(req, item))

(***************************************************************************)
(* calculate_change, in the steps in which it runs.                        *)
(***************************************************************************)
\* repr(self.model.info)
ModelInfo == "ModelInfo()"

check_requirements_module(t) ==
    IF ~Has(config, "capella-uuid")
    THEN Raise(t, "InvalidTrackerConfig",
               "The given module configuration is missing UUID of the "
               \o "target CapellaModule")
    ELSE
    LET module_uuid == config["capella-uuid"]
        req_module == find_by(model, module_uuid, {"CapellaModule"}, "uuid", None)
    IN  IF req_module = None
        THEN Raise(t, "MissingCapellaModule",
                   "No CapellaModule with UUID '" \o module_uuid
                   \o "' found in " \o ModelInfo)
        ELSE IF ~Has(snapshot, "id")
        THEN Raise(t, "InvalidSnapshotModule",
                   "In the snapshot the module is missing an id key")
        ELSE
        LET m == model.objs[req_module]
            long_name == Get(snapshot, "long_name", m.long_name)
            modify == (IF m.identifier # snapshot.id
                       THEN [identifier |-> snapshot.id] ELSE EmptyDict)
                      @@ (IF m.long_name # long_name
                          THEN [long_name |-> long_name] ELSE EmptyDict)
        IN  [t EXCEPT !.req_module = req_module,
                      !.base = [parent |-> UUIDReference(req_module)]
                               @@ (IF modify # EmptyDict THEN [modify |-> modify]
                                   ELSE EmptyDict)]

\* Lines 153-179: the CapellaTypesFolder is created or reconciled.
reconcile_types_folder(t0) ==
    LET created(r) == [r.t EXCEPT !.base = r.base]
        appended(done, action) ==
            IF done.t.exc # None THEN done.t
            ELSE IF DOMAIN action # {"parent"}
            THEN [done.t EXCEPT !.actions = Append(@, action)]
            ELSE done.t
        with_types(done, action) ==
            appended(done,
                IF done.creations # <<>>
                THEN _deep_update(action,
                         [extend |-> [requirement_types |-> done.creations]])
                ELSE action)
        sorted(acc, r) ==
            IF r.action # EmptyDict
            THEN [t |-> r.t, creations |-> Append(acc.creations, r.action)]
            ELSE [t |-> r.t, creations |-> acc.creations]
        step(acc, reqtype) ==
            IF acc.t.exc # None THEN acc
            ELSE sorted(acc, requirement_type_mod_action(acc.t, reqtype.id, reqtype))
        with_deletions(dt, reqtype_deletions) ==
            with_types(FoldLeft(step, [t |-> dt.t, creations |-> <<>>],
                                snapshot.requirement_types),
                       IF reqtype_deletions # <<>>
                       THEN _deep_update(dt.base,
                                [delete |-> [requirement_types |-> reqtype_deletions]])
                       ELSE dt.base)
        reconciled(t) ==
            IF t.reqt_folder = None
            THEN created(requirement_types_folder_create_action(t, t.base))
            ELSE with_deletions(data_type_definition_mod_actions(t),
                                requirement_type_delete_actions(t))
    IN  reconciled([t0 EXCEPT !.reqt_folder =
                       find_by_identifier(model, TYPES_FOLDER_IDENTIFIER,
                                          "CapellaTypesFolder", t0.req_module)])

\* Lines 182-214: one top-level item of the snapshot.
calculate_change_item(t, item) ==
    LET second_key == IF IsFolderItem(item) THEN "folders" ELSE "requirements"
        created(r) ==
            IF r.t.exc # None THEN r.t
            ELSE [r.t EXCEPT
                     !.base = _add_action_safely(@, "extend", second_key, r.base),
                     !.actions = @ \o r.child_mods]
        extended(r) ==
            IF r.t.exc # None THEN r.t
            ELSE [r.t EXCEPT !.actions = @ \o r.yielded]
        consumed(req, t2) ==
            IF t2.exc # None THEN t2
            ELSE extended(yield_requirements_mod_actions(t2, req, item, NoParent))
        found(req) ==
            IF req = None
            THEN created(yield_requirements_create_actions(t, item))
            ELSE consumed(req,
                     IF model.objs[req].parent # t.req_module
                     THEN invalidate_deletion(
                              [t EXCEPT
                                  !.visited = @ \cup {model.objs[req].identifier},
                                  !.base = _add_action_safely(@, "extend", second_key,
                                                              UUIDReference(req)),
                                  !.location_changed =
                                      @ \cup {model.objs[req].identifier}],
                              req)
                     ELSE [t EXCEPT !.visited = @ \cup {model.objs[req].identifier}])
    IN  found(find_by_identifier(model, item.id,
                  IF IsFolderItem(item) THEN "Folder" ELSE "Requirement", None))

\* Lines 216-218: self.actions.remove(action) removes the first equal
\* element and raises ValueError when there is none.
remove_emptied_actions(t) ==
    LET removed(acc, action, hits) ==
            IF DOMAIN action # {"parent"} THEN acc
            ELSE IF hits = {}
            THEN Raise(acc, "ValueError", "list.remove(x): x not in list")
            ELSE [acc EXCEPT !.actions =
                     RemoveAt(@, CHOOSE i \in hits : \A j \in hits : i <= j)]
        step(acc, staged) ==
            IF acc.exc # None THEN acc
            ELSE removed(acc, acc.heap[staged.href],
                     {i \in DOMAIN acc.actions :
                         Deref(acc, acc.actions[i]) = acc.heap[staged.href]})
    IN  FoldLeft(step, t, t.req_deletions)

\* Lines 216-223.
calculate_change_finish(t) ==
    LET appended(t1, base) ==
            [t1 EXCEPT !.base = base,
                       !.actions = IF DOMAIN base # {"parent"}
                                   THEN Append(@, base) ELSE @]
        finished(t1) ==
            IF t1.exc # None THEN t1
            ELSE appended(t1,
                     _deep_update(
                         _deep_update(t1.base,
                             req_delete_actions(t1, t1.visited, "requirements")),
                         req_delete_actions(t1, t1.visited, "folders")))
    IN  finished(remove_emptied_actions(t))

(***************************************************************************)
(* calculate_change_set.                                                   *)
(***************************************************************************)
ERROR_MESSAGE_PREFIX(module_id) == "Skipping module: " \o module_id

_wrap_errors(module_id, errors, include_start) ==
    LET start == IF include_start THEN ERROR_MESSAGE_PREFIX(module_id)
                 ELSE "Encountered error(s) in '" \o module_id \o "'"
        first_sep == Rep("=", Len(start))
        last_sep == Rep("=", Len(errors[Len(errors)]))
    IN  Join("\n", <<start, first_sep>> \o errors \o <<last_sep>>)

CaughtExceptions_Narrowed == {"InvalidTrackerConfig", "MissingCapellaModule"}

CaughtExceptions ==
    {"InvalidTrackerConfig", "InvalidSnapshotModule", "MissingCapellaModule"}

\* Lines 104-107: with force every action of the TrackerChange that is not
\* yet among the actions is appended.
forced_Unchecked(actions, tactions) == actions \o tactions

forced(actions, tactions) ==
    FoldLeft(LAMBDA acc, action :
                 IF action \in Range(acc) THEN acc ELSE Append(acc, action),
             actions, tactions)

\* What calculate_change_set returns for a TrackerChange, or raises.
calculate_change_set(t) ==
    LET module_id == Get(snapshot, "id", "MISSING ID")
        safe == IF force THEN FALSE ELSE safe_mode
        returned(actions, errors, logged) ==
            [status |-> "returned",
             actions |-> IF safe /\ (\E i \in DOMAIN errors : errors[i] # "")
                         THEN <<>> ELSE actions,
             errors |-> errors,
             logged |-> logged]
        collected(tactions) ==
            returned(IF force
                     THEN forced(IF t.errors # <<>> THEN <<>> ELSE tactions, tactions)
                     ELSE IF t.errors # <<>> THEN <<>> ELSE tactions,
                     IF t.errors # <<>>
                     THEN <<_wrap_errors(module_id, t.errors, ~force)>> ELSE <<>>,
                     <<>>)
    IN  IF t.exc = None THEN collected(Materialise(t, t.actions))
        ELSE IF t.exc \in CaughtExceptions
        THEN returned(<<>>,
                      IF gather_logs
                      THEN <<_wrap_errors(module_id, <<t.exc_message>>, TRUE)>>
                      ELSE <<>>,
                      IF gather_logs THEN <<>>
                      ELSE <<ERROR_MESSAGE_PREFIX(module_id) \o ". " \o t.exc_message>>)
        ELSE [status |-> "raised", exc |-> t.exc, message |-> t.exc_message]

(***************************************************************************)
(* decl.apply of capellambse, as main calls it on a non-empty change set.  *)
(* Every create-descriptor becomes an object below the parent of its       *)
(* action or descriptor, a reference in an extend list moves the object,   *)
(* modify sets fields, delete removes the object, what it contains and     *)
(* the references to it.  A promise resolves to the object created with    *)
(* its promise_id anywhere in the change set; apply raises when a promise  *)
(* stays unfulfilled or a value cannot be assigned.                        *)
(***************************************************************************)
Unresolved == "?"

With(o, fields) == fields @@ o

ValueAttributeClass(type) ==
    CASE type = "string" -> "StringValueAttribute"
      [] type = "enum" -> "EnumerationValueAttribute"
      [] type = "integer" -> "IntegerValueAttribute"
      [] type = "float" -> "RealValueAttribute"
      [] type = "boolean" -> "BooleanValueAttribute"
      [] OTHER -> "DateValueAttribute"

ClassOf(key, d) ==
    CASE key = "requirement_types_folders" -> "CapellaTypesFolder"
      [] key = "values" -> "EnumValue"
      [] key = "requirement_types" -> "RequirementType"
      [] key = "requirements" -> "Requirement"
      [] key = "folders" -> "Folder"
      [] key = "attributes" -> ValueAttributeClass(d._type)
      [] OTHER -> d._type

\* The collections a create-descriptor of the list `key` may nest.
Collections(key) ==
    CASE key = "requirement_types_folders" -> <<"data_type_definitions",
                                                "requirement_types">>
      [] key = "data_type_definitions" -> <<"values">>
      [] key = "requirement_types" -> <<"attribute_definitions">>
      [] key = "requirements" -> <<"attributes">>
      [] key = "folders" -> <<"attributes", "requirements", "folders">>
      [] OTHER -> <<>>

\* The UUID of the object a create-descriptor makes.
NewUUID(parent, key, d) ==
    parent \o "/" \o key \o "/"
    \o (IF key # "attributes" THEN d.identifier
        ELSE IF IsPromise(d.definition) THEN d.definition.identifier
        ELSE d.definition.uuid)

RECURSIVE PromisesCreated(_, _, _)
PromisesCreated(parent, key, list) ==
    UNION {IF IsRef(list[i]) THEN {}
           ELSE (IF Has(list[i], "promise_id")
                 THEN {<<list[i].promise_id, NewUUID(parent, key, list[i])>>}
                 ELSE {})
                \cup UNION {PromisesCreated(NewUUID(parent, key, list[i]), c,
                                            Get(list[i], c, <<>>)) :
                              c \in Range(Collections(key))} :
           i \in DOMAIN list}

PromisesCreatedBy(actions) ==
    UNION {UNION {PromisesCreated(actions[i].parent.uuid, key,
                                  actions[i].extend[key]) :
                    key \in DOMAIN Get(actions[i], "extend", EmptyDict)} :
           i \in DOMAIN actions}

Resolved(ref, pairs) ==
    IF IsUUIDReference(ref) THEN ref.uuid
    ELSE IF \E p \in pairs : p[1] = ref.identifier
    THEN (CHOOSE p \in pairs : p[1] = ref.identifier)[2]
    ELSE Unresolved

\* The fields a create-descriptor or a modify sets on an object.
FieldsOf(d, listed, pairs) ==
    [k \in DOMAIN d \cap {"identifier", "long_name", "text", "value",
                           "multi_valued"} |-> d[k]]
    @@ [k \in DOMAIN d \cap {"type", "definition"} |-> Resolved(d[k], pairs)]
    @@ [k \in DOMAIN d \cap {"data_type"} |->
           IF IsRef(d[k]) THEN Resolved(d[k], pairs) ELSE Unresolved]
    @@ [k \in DOMAIN d \cap (IF listed THEN {"values"} ELSE {}) |->
           [i \in DOMAIN d[k] |-> Resolved(d[k][i], pairs)]]

Move(m, u, parent) ==
    [objs |-> [m.objs EXCEPT ![u].parent = parent],
     order |-> Append(RemoveAt(m.order, IndexOf(m.order, u)), u)]

\* A new object gets a UUID of its own.
FreshUUID(m, uuid) == IF uuid \in DOMAIN m.objs THEN uuid \o "+" ELSE uuid

RECURSIVE Create(_, _, _, _, _)
RECURSIVE CreateNested(_, _, _, _, _)
Create(m, parent, key, list, pairs) ==
    LET created(u) ==
            CreateNested(
                AddObj(m, u, With(Obj(ClassOf(key, Head(list)), parent, "", ""),
                                  FieldsOf(Head(list), key = "attributes", pairs))),
                u, Head(list), Collections(key), pairs)
    IN  IF list = <<>> THEN m
        ELSE IF IsRef(Head(list))
        THEN Create(Move(m, Head(list).uuid, parent), parent, key, Tail(list), pairs)
        ELSE Create(created(FreshUUID(m, NewUUID(parent, key, Head(list)))),
                    parent, key, Tail(list), pairs)

CreateNested(m, u, d, collections, pairs) ==
    IF collections = <<>> THEN m
    ELSE CreateNested(
             Create(m, u, Head(collections), Get(d, Head(collections), <<>>), pairs),
             u, d, Tail(collections), pairs)

Cleared(o, gone) ==
    [o EXCEPT !.type = IF @ \in gone THEN None ELSE @,
              !.definition = IF @ \in gone THEN None ELSE @,
              !.data_type = IF @ \in gone THEN None ELSE @,
              !.values = SelectSeq(@, LAMBDA v : v \notin gone)]

Remove(m, gone) ==
    [objs |-> [u \in DOMAIN m.objs \ gone |-> Cleared(m.objs[u], gone)],
     order |-> SelectSeq(m.order, LAMBDA u : u \notin gone)]

Delete(m, refs) ==
    Remove(m, {u \in DOMAIN m.objs :
                 \E ref \in refs : u = ref.uuid \/ IsBelow(m, u, ref.uuid)})

RECURSIVE ExtendAll(_, _, _, _, _)
ExtendAll(m, parent, extend, keys, pairs) ==
    IF keys = {} THEN m
    ELSE LET key == CHOOSE k \in keys : TRUE
         IN  ExtendAll(Create(m, parent, key, extend[key], pairs),
                       parent, extend, keys \ {key}, pairs)

apply_instruction(m, action, pairs) ==
    LET parent == action.parent.uuid
        deleted(modified) ==
            IF Has(action, "delete")
            THEN Delete(modified,
                        UNION {Range(action.delete[k]) : k \in DOMAIN action.delete})
            ELSE modified
        modify(extended) ==
            deleted(IF Has(action, "modify")
                    THEN [extended EXCEPT !.objs[parent] =
                             FieldsOf(action.modify, TRUE, pairs) @@ @]
                    ELSE extended)
    IN  modify(IF Has(action, "extend")
               THEN ExtendAll(m, parent, action.extend, DOMAIN action.extend, pairs)
               ELSE m)

\* The model after decl.apply, or the model as it was with `raised` set.
apply(m, actions) ==
    LET step(acc, action) ==
            IF acc.raised \/ action.parent.uuid \notin DOMAIN acc.model.objs
            THEN [acc EXCEPT !.raised = TRUE]
            ELSE [acc EXCEPT !.model =
                     apply_instruction(acc.model, action, PromisesCreatedBy(actions))]
        checked(done) ==
            IF \/ done.raised
               \/ \E u \in DOMAIN done.model.objs :
                     \/ Unresolved \in {done.model.objs[u].type,
                                        done.model.objs[u].definition,
                                        done.model.objs[u].data_type}
                     \/ Unresolved \in Range(done.model.objs[u].values)
            THEN [model |-> m, raised |-> TRUE]
            ELSE done
    IN  checked(FoldLeft(step, [model |-> m, raised |-> FALSE], actions))

(***************************************************************************)
(* The models the change set is calculated against.                        *)
(*                                                                         *)
(* TargetModule is the CapellaModule of the tracker.  MigratedModel holds  *)
(* a CapellaTypesFolder with one Enum data type, two requirement types and *)
(* their attribute definitions, two folders and two requirements with      *)
(* attribute values.  CleanModel holds the bare module.  The Foreign       *)
(* variants add a second module with a types folder of its own.            *)
(***************************************************************************)
BuildModel(entries) ==
    FoldLeft(LAMBDA m, e : AddObj(m, e[1], e[2]), EmptyModel, entries)

TargetModule == <<"m1", Obj("CapellaModule", None, "mod", "Module")>>

TypesFolderObjects ==
    << <<"tf", Obj("CapellaTypesFolder", "m1", TYPES_FOLDER_IDENTIFIER,
                   REQ_TYPES_FOLDER_NAME)>>,
       <<"dt1", Obj("EnumerationDataTypeDefinition", "tf", "Kind", "Kind")>>,
       <<"ev1", Obj("EnumValue", "dt1", "a", "Alpha")>>,
       <<"ev2", Obj("EnumValue", "dt1", "b", "Beta")>>,
       <<"rt1", Obj("RequirementType", "tf", "RT", "Req")>>,
       <<"ad1", Obj("AttributeDefinition", "rt1", "Name RT", "Name")>>,
       <<"ad2", With(Obj("AttributeDefinitionEnumeration", "rt1", "Kind RT", "Kind"),
                     [data_type |-> "dt1"])>>,
       <<"rt2", Obj("RequirementType", "tf", "RT2", "Other")>>,
       <<"ad3", Obj("AttributeDefinition", "rt2", "Name RT2", "Name")>> >>

WorkItemObjects ==
    << <<"fa", With(Obj("Folder", "m1", "A", "Folder A"), [type |-> "rt1"])>>,
       <<"r1", With(Obj("Requirement", "fa", "R", "Req R"), [type |-> "rt1"])>>,
       <<"av1", With(Obj("StringValueAttribute", "r1", "", ""),
                     [definition |-> "ad1", value |-> Val("str", "x")])>>,
       <<"av2", With(Obj("EnumerationValueAttribute", "r1", "", ""),
                     [definition |-> "ad2", values |-> <<"ev1">>])>>,
       <<"r2", With(Obj("Requirement", "fa", "S", "Req S"), [type |-> "rt1"])>>,
       <<"fb", With(Obj("Folder", "m1", "B", "Folder B"), [type |-> "rt1"])>> >>

ForeignObjects ==
    << <<"m2", Obj("CapellaModule", None, "other", "Other Module")>>,
       <<"tf2", Obj("CapellaTypesFolder", "m2", TYPES_FOLDER_IDENTIFIER,
                    REQ_TYPES_FOLDER_NAME)>>,
       <<"dt9", Obj("EnumerationDataTypeDefinition", "tf2", "Kind", "Kind")>>,
       <<"ev9", Obj("EnumValue", "dt9", "a", "Alpha")>> >>

MigratedModel == BuildModel(<<TargetModule>> \o TypesFolderObjects \o WorkItemObjects)

CleanModel == BuildModel(<<TargetModule>>)

CleanModelForeign == BuildModel(<<TargetModule>> \o ForeignObjects)

\* The migrated model with a multi-valued Enum attribute definition.
MultiValuedModel == [MigratedModel EXCEPT !.objs["ad2"].multi_valued = TRUE]

(***************************************************************************)
(* Snapshot building blocks.                                               *)
(***************************************************************************)
KindDataType ==
    [id |-> "Kind", long_name |-> "Kind",
     values |-> <<[id |-> "a", long_name |-> "Alpha"],
                  [id |-> "b", long_name |-> "Beta"]>>]

NameDefinition == [id |-> "Name", type |-> "String", long_name |-> "Name",
                   multi_values |-> "absent"]

KindDefinition(multi_values) ==
    [id |-> "Kind", type |-> "Enum", long_name |-> "Kind",
     multi_values |-> multi_values]

MigratedTypes ==
    <<[id |-> "RT", long_name |-> "Req",
       attributes |-> <<NameDefinition, KindDefinition("False")>>],
      [id |-> "RT2", long_name |-> "Other", attributes |-> <<NameDefinition>>]>>

Requirement(id, long_name, type, attrs) ==
    [id |-> id, long_name |-> long_name, type |-> type, attributes |-> attrs]

Folder(id, long_name, type, attrs, children) ==
    [id |-> id, long_name |-> long_name, type |-> type, attributes |-> attrs,
     children |-> children]

Snapshot(dtypes, rtypes, items) ==
    [id |-> "mod", long_name |-> "Module", data_types |-> dtypes,
     requirement_types |-> rtypes, items |-> items]

TrackerConfig == ("capella-uuid" :> "m1")

(***************************************************************************)
(* The run of calculate_change_set, step by step.                          *)
(***************************************************************************)
Pending == [status |-> "pending"]

\* calculate_change_set called on its own: main is not running and no
\* ChangeAuditor exists.
NotRunning == [exit |-> "not running"]

NoAuditor == [attached |-> FALSE, classes |-> {}, context |-> <<>>, raised |-> <<>>]

\* TrackerChange.__init__ up to check_requirements_module.
Construct ==
    /\ pc = "construct"
    /\ tc' = check_requirements_module(NewTrackerChange)
    /\ pc' = IF tc'.exc # None THEN "return" ELSE "types"
    /\ UNCHANGED <<model, snapshot, config, force, safe_mode, gather_logs,
                   items_left, log, result, applied, cli, auditor>>

\* calculate_change: the CapellaTypesFolder.
TypesFolder ==
    /\ pc = "types"
    /\ tc' = reconcile_types_folder(tc)
    /\ pc' = IF tc'.exc # None THEN "return" ELSE "items"
    /\ items_left' = snapshot.items
    /\ UNCHANGED <<model, snapshot, config, force, safe_mode, gather_logs,
                   log, result, applied, cli, auditor>>

\* calculate_change: the next top-level work item.
WorkItem ==
    /\ pc = "items"
    /\ items_left # <<>>
    /\ tc' = calculate_change_item(tc, Head(items_left))
    /\ items_left' = Tail(items_left)
    /\ pc' = IF tc'.exc # None THEN "return" ELSE "items"
    /\ UNCHANGED <<model, snapshot, config, force, safe_mode, gather_logs,
                   log, result, applied, cli, auditor>>

\* calculate_change: staged deletions and the action of the module.
Finish ==
    /\ pc = "items"
    /\ items_left = <<>>
    /\ tc' = calculate_change_finish(tc)
    /\ pc' = "return"
    /\ UNCHANGED <<model, snapshot, config, force, safe_mode, gather_logs,
                   items_left, log, result, applied, cli, auditor>>

\* calculate_change_set returns, or the exception leaves it.
Return ==
    /\ pc = "return"
    /\ result' = calculate_change_set(tc)
    /\ log' = tc.log \o (IF result'.status = "returned" THEN result'.logged ELSE <<>>)
    /\ pc' = "done"
    /\ UNCHANGED <<model, snapshot, config, force, safe_mode, gather_logs,
                   tc, items_left, applied, cli, auditor>>

Next == Construct \/ TypesFolder \/ WorkItem \/ Finish \/ Return

Start ==
    /\ pc = "construct"
    /\ tc = NewTrackerChange
    /\ items_left = <<>>
    /\ log = <<>>
    /\ result = Pending
    /\ applied = <<>>
    /\ cli = NotRunning
    /\ auditor = NoAuditor

\* main: a non-empty change set is applied to the model, and the bridge is
\* run again on the same snapshot.
ApplyChangeSet ==
    /\ pc = "done"
    /\ applied = <<>>
    /\ result.status = "returned"
    /\ result.actions # <<>>
    /\ applied' = <<[result |-> result,
                     raised |-> apply(model, result.actions).raised]>>
    /\ model' = apply(model, result.actions).model
    /\ pc' = IF applied'[1].raised THEN "done" ELSE "construct"
    /\ tc' = IF applied'[1].raised THEN tc ELSE NewTrackerChange
    /\ items_left' = <<>>
    /\ result' = IF applied'[1].raised THEN result ELSE Pending
    /\ UNCHANGED <<snapshot, config, force, safe_mode, gather_logs, log, cli,
                   auditor>>

Main == Next \/ ApplyChangeSet

(***************************************************************************)
(* Tree snapshots: the two requirements R and S of the migrated model and  *)
(* a new requirement N are absent, at top level, below folder A or below   *)
(* folder B; folder A is absent, at top level or below B; B is absent or   *)
(* at top level; a new folder F without children is absent, at top level,  *)
(* below folder A or below a new folder G; the top level lists the folders *)
(* first or last.                                                          *)
(***************************************************************************)
Places == {"absent", "top", "A", "B"}

UnchangedAttributes ==
    <<[id |-> "Name", value |-> Val("str", "x")],
      [id |-> "Kind", value |-> Val("list", <<"a">>)]>>

Reverse(s) == [i \in DOMAIN s |-> s[Len(s) + 1 - i]]

TreeItems(place, renamed, reversed, emptied) ==
    LET R == Requirement("R", IF renamed THEN "Renamed" ELSE "Req R", "RT",
                         UnchangedAttributes)
             @@ (IF emptied THEN [children |-> <<>>] ELSE EmptyDict)
        S == Requirement("S", "Req S", "RT", <<>>)
        N == Requirement("N", "Req N", "RT", <<>>)
        F == Folder("F", "Folder F", "RT", <<>>, <<>>)
        at(p) == (IF place.R = p THEN <<R>> ELSE <<>>)
                 \o (IF place.S = p THEN <<S>> ELSE <<>>)
                 \o (IF place.N = p THEN <<N>> ELSE <<>>)
                 \o (IF place.F = p THEN <<F>> ELSE <<>>)
        A == Folder("A", "Folder A", "RT", <<>>, at("A"))
        B == Folder("B", "Folder B", "RT", <<>>,
                    at("B") \o (IF place.A = "B" THEN <<A>> ELSE <<>>))
        top == (IF place.A = "top" THEN <<A>> ELSE <<>>)
               \o (IF place.B = "top" THEN <<B>> ELSE <<>>)
               \o (IF place.F = "G"
                   THEN <<Folder("G", "Folder G", "RT", <<>>, at("G"))>>
                   ELSE <<>>)
               \o at("top")
    IN  IF reversed THEN Reverse(top) ELSE top

TreePlaces ==
    [R : Places, S : Places, N : {"absent", "top", "A"},
     A : {"absent", "top", "B"}, B : {"absent", "top"},
     F : {"absent", "top", "A", "G"}]

\* In the last set requirement R of the model comes with children = [].
TreeSnapshots ==
    {Snapshot(<<KindDataType>>, MigratedTypes,
              TreeItems(place, renamed, reversed, FALSE)) :
        place \in TreePlaces, renamed \in BOOLEAN, reversed \in BOOLEAN}
    \cup {Snapshot(<<KindDataType>>, MigratedTypes,
                   TreeItems(place, FALSE, FALSE, TRUE)) :
             place \in {p \in TreePlaces : p.R # "absent" /\ p.F = "absent"}}

InitTree ==
    /\ model = MigratedModel
    /\ snapshot \in TreeSnapshots
    /\ config = TrackerConfig
    /\ force = FALSE
    /\ safe_mode = TRUE
    /\ gather_logs \in BOOLEAN
    /\ Start

SpecTree == InitTree /\ [][Next]_vars

(***************************************************************************)
(* Work-item snapshots.  Folder A holds requirement S, unchanged, and      *)
(* folder B is unchanged.  Requirement R of the migrated model stays below *)
(* A or moves to top level, with each requirement type (its own, another   *)
(* one, none, an undefined one) and each combination of attribute values:  *)
(* absent, unchanged, changed, of the wrong Python type, naming no option  *)
(* of the data type, or of an attribute its type does not define.  A new   *)
(* requirement N is absent, valid, holds a value of the wrong type or is   *)
(* of an undefined type, at top level or below A.                          *)
(***************************************************************************)
ItemTypes == {"RT", "RT2", "", "UNKNOWN"}

NameValues == {Val("NoneType", ""), Val("str", "x"), Val("str", "y"), Val("int", "1")}

KindValues == {Val("NoneType", ""), Val("list", <<"a">>), Val("list", <<"b">>),
               Val("list", <<"zz">>), Val("list", <<>>)}

\* item["attributes"]: a value of NoneType stands for an absent key.  The
\* extra attribute is undefined ("Bogus", last or first, or "Empty" with an
\* empty list for its value) or blacklisted ("Type").
Attributes(name, kind, extra) ==
    (IF extra = "BogusFirst" THEN <<[id |-> "Bogus", value |-> Val("str", "z")]>>
     ELSE <<>>)
    \o (IF name.shape # "NoneType" THEN <<[id |-> "Name", value |-> name]>> ELSE <<>>)
    \o (IF kind.shape # "NoneType" THEN <<[id |-> "Kind", value |-> kind]>> ELSE <<>>)
    \o (IF extra = "Bogus" THEN <<[id |-> "Bogus", value |-> Val("str", "z")]>>
        ELSE IF extra = "Empty" THEN <<[id |-> "Bogus", value |-> Val("list", <<>>)]>>
        ELSE IF extra = "Type"
        THEN <<[id |-> "Type", value |-> Val("list", <<"Folder">>)]>>
        ELSE <<>>)

AttributeSets ==
    {Attributes(name, kind, "") : name \in NameValues, kind \in KindValues}
    \cup {Attributes(Val("str", "x"), Val("list", <<"a">>), "Bogus"),
          Attributes(Val("str", "y"), Val("list", <<"b">>), "BogusFirst"),
          Attributes(Val("str", "x"), Val("list", <<"a">>), "Empty"),
          Attributes(Val("str", "x"), Val("list", <<"a">>), "Type"),
          Attributes(Val("str", "x"), Val("NoneType", ""), "Type")}

NewItems ==
    {[place |-> "absent", type |-> "RT", attributes |-> <<>>],
     [place |-> "top", type |-> "RT",
      attributes |-> Attributes(Val("str", "n"), Val("NoneType", ""), "")],
     [place |-> "top", type |-> "RT",
      attributes |-> Attributes(Val("int", "1"), Val("NoneType", ""), "")],
     [place |-> "top", type |-> "RT",
      attributes |-> Attributes(Val("str", "n"), Val("NoneType", ""), "BogusFirst")],
     [place |-> "A", type |-> "",
      attributes |-> Attributes(Val("str", "n"), Val("list", <<"a">>), "")]}
    \cup {[place |-> place, type |-> "UNKNOWN", attributes |-> attrs] :
            place \in {"top", "A"},
            attrs \in {<<>>, Attributes(Val("str", "n"), Val("NoneType", ""), "")}}

AttrItems(place, type, attrs, new) ==
    LET R == Requirement("R", "Req R", type, attrs)
        S == Requirement("S", "Req S", "RT", <<>>)
        N == Requirement("N", "Req N", new.type, new.attributes)
        at(p) == (IF place = p THEN <<R>> ELSE <<>>)
                 \o (IF p = "A" THEN <<S>> ELSE <<>>)
                 \o (IF new.place = p THEN <<N>> ELSE <<>>)
    IN  <<Folder("A", "Folder A", "RT", <<>>, at("A")),
          Folder("B", "Folder B", "RT", <<>>, <<>>)>> \o at("top")

\* Requirement R below A, moved below B or to top level, with or without a
\* key that is no field of a Requirement ("imagination" in the tests), and
\* with or without a new requirement N at top level.
FieldItems(place, attrs, unknown, new) ==
    LET R == Requirement("R", "Req R", "RT", attrs)
             @@ (IF unknown THEN [unknown_key |-> "imagination"] ELSE EmptyDict)
        S == Requirement("S", "Req S", "RT", <<>>)
        N == Requirement("N", "Req N", "RT", <<>>)
        at(p) == IF place = p THEN <<R>> ELSE <<>>
    IN  <<Folder("A", "Folder A", "RT", <<>>, at("A") \o <<S>>),
          Folder("B", "Folder B", "RT", <<>>, at("B"))>>
        \o at("top") \o (IF new THEN <<N>> ELSE <<>>)

FieldSnapshots ==
    {Snapshot(<<KindDataType>>, MigratedTypes, FieldItems(place, attrs, unknown, new)) :
        place \in {"A", "B", "top"},
        attrs \in {Attributes(Val("str", "x"), Val("list", <<"a">>), ""),
                   Attributes(Val("str", "x"), Val("NoneType", ""), ""),
                   Attributes(Val("str", "y"), Val("NoneType", ""), ""),
                   Attributes(Val("int", "1"), Val("list", <<"a">>), ""),
                   Attributes(Val("str", "x"), Val("list", <<"zz">>), ""),
                   Attributes(Val("str", "x"), Val("list", <<"a">>), "Bogus")},
        unknown \in BOOLEAN, new \in BOOLEAN}

AttrSnapshots ==
    {Snapshot(<<KindDataType>>, MigratedTypes, AttrItems(place, type, attrs, new)) :
        place \in {"A", "top"}, type \in ItemTypes, attrs \in AttributeSets,
        new \in NewItems}
    \cup FieldSnapshots

InitAttr ==
    /\ model = MigratedModel
    /\ snapshot \in AttrSnapshots
    /\ config = TrackerConfig
    /\ force \in BOOLEAN
    /\ safe_mode \in BOOLEAN
    /\ gather_logs \in BOOLEAN
    /\ Start

SpecAttr == InitAttr /\ [][Next]_vars

(***************************************************************************)
(* Tracker boundary: the config holds the UUID of the module, of no module *)
(* or no UUID at all; the snapshot holds its id or not.                    *)
(***************************************************************************)
TrackerConfigs ==
    {TrackerConfig, ("capella-uuid" :> "m0"), ("project" :> "example")}

BoundarySnapshots ==
    LET snapshots ==
            {Snapshot(<<KindDataType>>, MigratedTypes, items) :
                items \in {<<>>, AttrItems("A", "RT", UnchangedAttributes,
                                           [place |-> "absent", type |-> "RT",
                                            attributes |-> <<>>])}}
    IN  snapshots \cup {Del(module, "id") : module \in snapshots}

InitFatal ==
    /\ model \in {MigratedModel, CleanModel}
    /\ snapshot \in BoundarySnapshots
    /\ config \in TrackerConfigs
    /\ force \in BOOLEAN
    /\ safe_mode \in BOOLEAN
    /\ gather_logs \in BOOLEAN
    /\ Start

SpecFatal == InitFatal /\ [][Next]_vars

(***************************************************************************)
(* Schema snapshots, against the migrated model, the migrated model with a *)
(* multi-valued Enum definition, the clean model and the clean model next  *)
(* to a foreign module.  The data type Kind is unchanged,                  *)
(* absent, renamed, or trades its option b for c, or comes with a second   *)
(* data type State.  The requirement types are unchanged, or RT holds its  *)
(* Enum definition with multi_values absent or True, is renamed, loses its *)
(* Enum definition or gains one for State; RT2 is absent; a type RT3 is    *)
(* new.  Requirement R keeps its type or takes RT3 and names option a, b   *)
(* or c, none at all or both a and b; a new requirement N is absent or of  *)
(* type RT or RT3.                                                         *)
(***************************************************************************)
StateDataType ==
    [id |-> "State", long_name |-> "State",
     values |-> <<[id |-> "open", long_name |-> "Open"]>>]

SchemaDataTypes ==
    {<<KindDataType>>, <<>>,
     <<[KindDataType EXCEPT !.long_name = "Sort"]>>,
     <<[KindDataType EXCEPT !.values = <<[id |-> "a", long_name |-> "Alpha"],
                                         [id |-> "c", long_name |-> "Gamma"]>>]>>,
     <<KindDataType, StateDataType>>}

RequirementTypeRT(long_name, definitions) ==
    [id |-> "RT", long_name |-> long_name, attributes |-> definitions]

SchemaTypes ==
    {MigratedTypes,
     <<RequirementTypeRT("Req", <<NameDefinition, KindDefinition("absent")>>),
       MigratedTypes[2]>>,
     <<RequirementTypeRT("Req", <<NameDefinition, KindDefinition("True")>>),
       MigratedTypes[2]>>,
     <<RequirementTypeRT("Requirement",
           <<[NameDefinition EXCEPT !.long_name = "Title"],
             KindDefinition("False")>>),
       MigratedTypes[2]>>,
     <<RequirementTypeRT("Req", <<NameDefinition>>), MigratedTypes[2]>>,
     <<RequirementTypeRT("Req",
           <<NameDefinition, KindDefinition("False"),
             [id |-> "State", type |-> "Enum", long_name |-> "State",
              multi_values |-> "absent"]>>),
       MigratedTypes[2]>>,
     <<MigratedTypes[1]>>,
     MigratedTypes
         \o <<[id |-> "RT3", long_name |-> "Third",
               attributes |-> <<NameDefinition, KindDefinition("False")>>]>>}

SchemaItems(type, option, new) ==
    LET R == Requirement("R", "Req R", type,
                         <<[id |-> "Name", value |-> Val("str", "x")],
                           [id |-> "Kind",
                            value |-> Val("list", IF option = "" THEN <<>>
                                                  ELSE IF option = "ab"
                                                  THEN <<"a", "b">>
                                                  ELSE <<option>>)]>>)
        S == Requirement("S", "Req S", "RT", <<>>)
        N == Requirement("N", "Req N", new,
                         <<[id |-> "Name", value |-> Val("str", "n")],
                           [id |-> "Kind", value |-> Val("list", <<"a">>)]>>)
    IN  <<Folder("A", "Folder A", "RT", <<>>, <<R, S>>),
          Folder("B", "Folder B", "RT", <<>>, <<>>)>>
        \o (IF new = "" THEN <<>> ELSE <<N>>)

SchemaSnapshots ==
    {Snapshot(dtypes, rtypes, items) :
        dtypes \in SchemaDataTypes, rtypes \in SchemaTypes,
        items \in {<<>>}
            \cup {SchemaItems(c[1], c[2], new) :
                    c \in {<<"RT", "a">>, <<"RT", "b">>, <<"RT", "c">>, <<"RT", "">>,
                          <<"RT", "ab">>, <<"RT3", "a">>},
                    new \in {"", "RT", "RT3"}}}

InitSchema ==
    /\ model \in {MigratedModel, MultiValuedModel, CleanModel, CleanModelForeign}
    /\ snapshot \in SchemaSnapshots
    /\ config = TrackerConfig
    /\ force = FALSE
    /\ safe_mode = TRUE
    /\ gather_logs = TRUE
    /\ Start

SpecSchema == InitSchema /\ [][Next]_vars

(***************************************************************************)
(* Synchronization runs of main: a well-formed snapshot against the clean  *)
(* and the migrated model, the change set applied and the bridge run a     *)
(* second time.  The snapshot holds the data type Kind, alone, with a new  *)
(* option or next to a second data type; requirement types whose Enum      *)
(* definition has multi_values absent, True or False, or a third type; no  *)
(* items, the unchanged items, a changed option and a new requirement, or  *)
(* a new requirement without a type.                                       *)
(***************************************************************************)
SyncDataTypes ==
    {<<KindDataType>>, <<KindDataType, StateDataType>>,
     <<[KindDataType EXCEPT !.values = Append(@, [id |-> "c", long_name |-> "Gamma"])]>>}

SyncTypes ==
    {types \in SchemaTypes :
        /\ Len(types) > 1
        /\ types[1].long_name = "Req"
        /\ \E i \in DOMAIN types[1].attributes : types[1].attributes[i].id = "Kind"
        /\ \A i \in DOMAIN types[1].attributes : types[1].attributes[i].id # "State"}

SyncItems ==
    {<<>>, SchemaItems("RT", "a", ""), SchemaItems("RT", "b", "RT"),
     SchemaItems("RT", "a", "") \o <<Requirement("U", "Req U", "", <<>>)>>}

InitSync ==
    /\ model \in {MigratedModel, CleanModel}
    /\ snapshot \in {Snapshot(dtypes, rtypes, items) :
                        dtypes \in SyncDataTypes, rtypes \in SyncTypes,
                        items \in SyncItems}
    /\ config = TrackerConfig
    /\ force = FALSE
    /\ safe_mode = TRUE
    /\ gather_logs = TRUE
    /\ Start

SpecSync == InitSync /\ [][Main]_vars

(***************************************************************************)
(* Attribute kinds: the requirement type RT declares the one attribute     *)
(* Kind, of each kind of _ATTR_VALUE_DEFAULT_MAP in turn, and a new        *)
(* requirement N supplies a value of each native type for it; the data     *)
(* type Kind is in the snapshot or not.  The clean model makes every run   *)
(* go through attribute_value_create_action.                               *)
(***************************************************************************)
DeclaredKinds == {"Boolean", "Integer", "Float", "String", "Date", "Enum"}

SnapshotValues ==
    {Val("bool", "True"), Val("int", "1"), Val("float", "1.0"), Val("str", "a"),
     Val("datetime", "2022-01-01"), Val("NoneType", ""),
     Val("list", <<"a">>), Val("list", <<"zz">>), Val("list", <<"a", "zz">>),
     Val("list", <<>>)}

InitKinds ==
    /\ model = CleanModel
    /\ snapshot \in
          {Snapshot(dtypes,
                    <<[id |-> "RT", long_name |-> "Req",
                       attributes |-> <<[id |-> "Kind", type |-> kind,
                                         long_name |-> "Kind",
                                         multi_values |-> "absent"]>>]>>,
                    <<Requirement("N", "Req N", "RT",
                                  <<[id |-> "Kind", value |-> value]>>)>>) :
              dtypes \in {<<KindDataType>>, <<>>}, kind \in DeclaredKinds,
              value \in SnapshotValues}
    /\ config = TrackerConfig
    /\ force = FALSE
    /\ safe_mode = TRUE
    /\ gather_logs = TRUE
    /\ Start

SpecKinds == InitKinds /\ [][Next]_vars

(***************************************************************************)
(* The Object Finder of rm_bridge.  find_reqmodule(uuid, identifier) looks *)
(* the module up by its UUID and, when an identifier is given that is not  *)
(* the one of the module found, writes it to the module.  A missing UUID   *)
(* is logged and None returned.  TrackerChange of rm_bridge calls it with  *)
(* config["capella-uuid"] and config["external-id"] before the change set  *)
(* is calculated.                                                          *)
(***************************************************************************)
find_reqmodule(m, uuid, identifier) ==
    IF uuid \notin DOMAIN m.objs THEN [model |-> m, req_module |-> None]
    ELSE IF identifier # None /\ m.objs[uuid].identifier # identifier
    THEN [model |-> [m EXCEPT !.objs[uuid].identifier = identifier],
          req_module |-> uuid]
    ELSE [model |-> m, req_module |-> uuid]

FindReqModule ==
    /\ pc = "construct"
    /\ Has(config, "capella-uuid")
    /\ \E identifier \in {None, "mod", "tracker"} :
          model' = find_reqmodule(model, config["capella-uuid"], identifier).model
    /\ UNCHANGED <<snapshot, config, force, safe_mode, gather_logs, pc, tc,
                   items_left, log, result, applied, cli, auditor>>

Lookups == Next \/ FindReqModule

SpecFinder == InitFatal /\ [][Lookups]_vars

(***************************************************************************)
(* Schema snapshots against a target module without a Types-Folder whose   *)
(* requirement R takes its requirement type from the Types-Folder of       *)
(* another module: calculate_change looks for the Types-Folder below the   *)
(* target module only and has to create it, while R is matched.            *)
(***************************************************************************)
InitOrder ==
    /\ model = BuildModel(
           <<TargetModule>> \o ForeignObjects
           \o << <<"rt9", Obj("RequirementType", "tf2", "RT", "Req")>>,
                 <<"ad9", Obj("AttributeDefinition", "rt9", "Name RT", "Name")>>,
                 <<"r1", With(Obj("Requirement", "m1", "R", "Req R"),
                              [type |-> "rt9"])>>,
                 <<"av1", With(Obj("StringValueAttribute", "r1", "", ""),
                               [definition |-> "ad9", value |-> Val("str", "x")])>> >>)
    /\ snapshot \in SchemaSnapshots
    /\ config = TrackerConfig
    /\ force = FALSE
    /\ safe_mode = TRUE
    /\ gather_logs = TRUE
    /\ Start

SpecOrder == InitOrder /\ [][Next]_vars

(***************************************************************************)
(* Reading a computed change set.                                          *)
(***************************************************************************)
\* The change set TrackerChange computed: self.actions, once calculate_change
\* has run to its end without an exception.
Computed == pc \in {"return", "done"} /\ tc.exc = None

ChangeSet == Materialise(tc, tc.actions)

\* The work items of the snapshot with the id of the folder they are listed
\* in ("" at top level).
RECURSIVE Nodes(_, _)
Nodes(items, parent) ==
    UNION {{[item |-> items[i], parent |-> parent]}
           \cup Nodes(ChildrenOfItem(items[i]), items[i].id) : i \in DOMAIN items}

SnapshotNodes == Nodes(snapshot.items, "")

Matched(node) ==
    find_by_identifier(model, node.item.id,
        IF IsFolderItem(node.item) THEN "Folder" ELSE "Requirement", None)

SnapshotParent(node) ==
    IF node.parent = "" THEN config["capella-uuid"]
    ELSE find_by_identifier(model, node.parent, "Folder", None)

Relocated(node) ==
    /\ Matched(node) # None
    /\ SnapshotParent(node) # None
    /\ model.objs[Matched(node)].parent # SnapshotParent(node)

ListedUnder(action, first_key, ref) ==
    /\ Has(action, first_key)
    /\ \E key \in DOMAIN action[first_key] : ref \in Range(action[first_key][key])

\* A move: listed in the extend of the new parent, in no delete.
MovedNotDeleted(node) ==
    /\ \E i \in DOMAIN ChangeSet :
          /\ ChangeSet[i].parent = UUIDReference(SnapshotParent(node))
          /\ ListedUnder(ChangeSet[i], "extend", UUIDReference(Matched(node)))
    /\ \A i \in DOMAIN ChangeSet :
          ~ListedUnder(ChangeSet[i], "delete", UUIDReference(Matched(node)))

(***************************************************************************)
(* C1: a work item that exists in the model and whose parent in the        *)
(* snapshot differs from its parent in the model is moved: the computed    *)
(* change set lists a UUID reference to it in the extend of its new parent *)
(* and lists it in no delete of any action.                                *)
(***************************************************************************)
C1_MoveNotDeleteCreate ==
    Computed =>
        \A node \in SnapshotNodes : Relocated(node) => MovedNotDeleted(node)

\* A recoverable error was reported through _handle_user_error.
RecoverableError == tc.errors # <<>> \/ tc.log # <<>>

(***************************************************************************)
(* C2: with force = False and safe_mode = True, a run in which at least    *)
(* one recoverable error was reported returns an empty list of actions,    *)
(* whether the errors are gathered or logged.                              *)
(***************************************************************************)
C2_SafeModeAllOrNothing ==
    (pc = "done" /\ Computed /\ ~force /\ safe_mode /\ RecoverableError)
        => result.status = "returned" /\ result.actions = <<>>

\* The create-descriptors of work items in a list of actions, nested ones
\* included.
RECURSIVE Descriptors(_)
Descriptors(xs) ==
    UNION {IF IsRef(xs[i]) THEN {}
           ELSE {xs[i]} \cup Descriptors(Get(xs[i], "requirements", <<>>))
                        \cup Descriptors(Get(xs[i], "folders", <<>>)) :
           i \in DOMAIN xs}

Created(actions) ==
    UNION {Descriptors(Get(Get(actions[i], "extend", EmptyDict), "requirements", <<>>))
           \cup Descriptors(Get(Get(actions[i], "extend", EmptyDict), "folders", <<>>)) :
           i \in DOMAIN actions}

\* A recoverable error was reported for the work item with this id.
Erroring(id) ==
    \E message \in Range(tc.errors) \cup Range(tc.log) :
        Contains(message, "Invalid workitem '" \o id \o "'. ")

(***************************************************************************)
(* C3: with force = True the returned actions hold no create-descriptor    *)
(* and no modify action of a work item for which a recoverable error was   *)
(* reported.                                                               *)
(***************************************************************************)
C3_ForceExcludesErroringItem ==
    (pc = "done" /\ Computed /\ force) =>
        /\ result.status = "returned"
        /\ \A node \in SnapshotNodes :
              Erroring(node.item.id) =>
                  /\ \A d \in Created(result.actions) : d.identifier # node.item.id
                  /\ \A i \in DOMAIN result.actions :
                        result.actions[i].parent = UUIDReference(Matched(node))
                            => ~Has(result.actions[i], "modify")

\* The work item declares a type that the snapshot does not define.
UnknownType(item) ==
    item.type # "" /\ ~HasKey(snapshot.requirement_types, item.type)

(***************************************************************************)
(* C6: a work item of a type that is not among the requirement types of    *)
(* the snapshot is reported as a per-item error, gathered or logged; no    *)
(* exception leaves the construction of TrackerChange.                     *)
(***************************************************************************)
C6_UnknownTypeIsRecoverable ==
    pc = "done" =>
        \A node \in SnapshotNodes :
            UnknownType(node.item) => tc.exc = None /\ Erroring(node.item.id)

\* The condition that is fatal for the tracker, in the order in which
\* check_requirements_module tests them.
FatalCondition ==
    IF ~Has(config, "capella-uuid") THEN "InvalidTrackerConfig"
    ELSE IF config["capella-uuid"] \notin DOMAIN model.objs
            \/ model.objs[config["capella-uuid"]].kind # "CapellaModule"
    THEN "MissingCapellaModule"
    ELSE IF ~Has(snapshot, "id") THEN "InvalidSnapshotModule"
    ELSE None

(***************************************************************************)
(* C7: when the config lacks capella-uuid, the model holds no module of    *)
(* that UUID or the snapshot lacks id, calculate_change_set raises nothing *)
(* and returns no action, whatever force and safe_mode are; with           *)
(* gather_logs it returns exactly one error, which starts with "Skipping   *)
(* module: <module id>" and holds the message of the condition, and        *)
(* without gather_logs it returns no error.                                *)
(***************************************************************************)
C7_FatalPerTracker ==
    (pc = "done" /\ FatalCondition # None) =>
        /\ tc.exc = FatalCondition
        /\ result.status = "returned"
        /\ result.actions = <<>>
        /\ gather_logs =>
              /\ Len(result.errors) = 1
              /\ StartsWith(result.errors[1],
                            "Skipping module: " \o Get(snapshot, "id", "MISSING ID"))
              /\ Contains(result.errors[1], tc.exc_message)
              /\ tc.exc_message # ""
        /\ ~gather_logs => result.errors = <<>>

C7_Witness ==
    /\ pc = "done"
    /\ FatalCondition = "InvalidSnapshotModule"
    /\ gather_logs /\ force /\ ~safe_mode
    /\ Len(result.errors) = 1

\* The matched work item changes its type: the type of the snapshot item
\* is not the identifier of the type of the model object.
TypeChanged(node) ==
    /\ Matched(node) # None
    /\ node.item.type # model.objs[model.objs[Matched(node)].type].identifier

\* The action of a type change: the one action addressed to the object that
\* sets modify.type, or no record at all.
TypeChangeActions(node) ==
    {i \in DOMAIN ChangeSet :
        /\ ChangeSet[i].parent = UUIDReference(Matched(node))
        /\ Has(ChangeSet[i], "modify")
        /\ Has(ChangeSet[i].modify, "type")}

DeletesEveryAttribute(action, req) ==
    attributes(model, req) # <<>> =>
        /\ Has(action, "delete")
        /\ Has(action.delete, "attributes")
        /\ action.delete.attributes =
               [i \in DOMAIN attributes(model, req) |->
                   UUIDReference(attributes(model, req)[i])]

NoSeparateModify(req) ==
    \A i \in DOMAIN ChangeSet :
        ChangeSet[i].parent \notin
            {UUIDReference(a) : a \in Range(attributes(model, req))}

CreatedAttributes(action) ==
    Get(Get(action, "extend", EmptyDict), "attributes", <<>>)

\* The descriptor creates a value of the attribute `id` of the type.
CreatesValueOf(descriptor, id, type) ==
    \/ /\ IsUUIDReference(descriptor.definition)
       /\ model.objs[descriptor.definition.uuid].identifier = id \o " " \o type
    \/ /\ IsPromise(descriptor.definition)
       /\ descriptor.definition.identifier
              \in {cls \o " " \o id \o " " \o type : cls \in AttributeDefinitionKinds}

\* What the snapshot says about an attribute of an item, read from the
\* snapshot alone: its pair is blacklisted, its type defines it, its value
\* is of the declared Python type and, for an Enum, names an option.
Blacklisted(attr) ==
    /\ attr.id = "Type"
    /\ \/ attr.value = Val("str", "Folder")
       \/ attr.value.shape = "list" /\ Range(attr.value.val) \subseteq {"Folder"}

DefinedFor(attr, type) ==
    /\ HasKey(snapshot.requirement_types, type)
    /\ HasKey(Entry(snapshot.requirement_types, type).attributes, attr.id)

ValidValue(attr, type) ==
    LET deftype == Entry(Entry(snapshot.requirement_types, type).attributes,
                         attr.id).type
    IN  IF deftype = "Enum"
        THEN /\ attr.value.shape = "list"
             /\ HasKey(snapshot.data_types, attr.id)
             /\ Range(attr.value.val)
                    \cap KeysOf(Entry(snapshot.data_types, attr.id).values) # {}
        ELSE deftype = "String" /\ attr.value.shape = "str"

Accepted(item) ==
    IF item.type = "" THEN <<>>
    ELSE SelectSeq(item.attributes,
             LAMBDA attr : /\ ~Blacklisted(attr)
                           /\ DefinedFor(attr, item.type)
                           /\ ValidValue(attr, item.type))

CreatesExactly(action, attrs, type) ==
    /\ Len(CreatedAttributes(action)) = Len(attrs)
    /\ \A i \in DOMAIN attrs :
          CreatesValueOf(CreatedAttributes(action)[i], attrs[i].id, type)

PromisesAmong(refs) ==
    {refs[i].identifier : i \in {j \in DOMAIN refs : IsPromise(refs[j])}}

PromisesAt(d, key) ==
    IF Has(d, key) /\ IsPromise(d[key]) THEN {d[key].identifier} ELSE {}

ListAt(d, key) == IF Has(d, key) THEN d[key] ELSE <<>>

PromisesOfAttributeValue(d) ==
    PromisesAt(d, "definition") \cup PromisesAmong(ListAt(d, "values"))

RECURSIVE PromisesOfWorkItems(_)
PromisesOfWorkItems(list) ==
    UNION {IF IsRef(list[i]) THEN {}
           ELSE PromisesAt(list[i], "type")
                \cup UNION {PromisesOfAttributeValue(list[i].attributes[k]) :
                              k \in DOMAIN ListAt(list[i], "attributes")}
                \cup PromisesOfWorkItems(ListAt(list[i], "requirements"))
                \cup PromisesOfWorkItems(ListAt(list[i], "folders")) :
           i \in DOMAIN list}

PromisesOfDefinitions(list) ==
    UNION {PromisesAt(list[i], "data_type") : i \in DOMAIN list}

PromisesOfRequirementTypes(list) ==
    UNION {PromisesOfDefinitions(list[i].attribute_definitions) : i \in DOMAIN list}

PromisesOfAction(action) ==
    LET modify == IF Has(action, "modify") THEN action.modify ELSE EmptyDict
        extend == IF Has(action, "extend") THEN action.extend ELSE EmptyDict
    IN  PromisesAt(modify, "type")
        \cup PromisesAmong(ListAt(modify, "values"))
        \cup PromisesOfWorkItems(ListAt(extend, "requirements"))
        \cup PromisesOfWorkItems(ListAt(extend, "folders"))
        \cup UNION {PromisesOfAttributeValue(extend.attributes[k]) :
                      k \in DOMAIN ListAt(extend, "attributes")}
        \cup PromisesOfDefinitions(ListAt(extend, "attribute_definitions"))
        \cup PromisesOfRequirementTypes(ListAt(extend, "requirement_types"))
        \cup UNION {PromisesOfRequirementTypes(
                        extend.requirement_types_folders[k].requirement_types) :
                      k \in DOMAIN ListAt(extend, "requirement_types_folders")}

PromiseIdsAmong(list) == {list[i].promise_id : i \in DOMAIN list}

PromiseIdsOfDataTypes(list) ==
    PromiseIdsAmong(list)
    \cup UNION {PromiseIdsAmong(list[i].values) : i \in DOMAIN list}

PromiseIdsOfRequirementTypes(list) ==
    PromiseIdsAmong(list)
    \cup UNION {PromiseIdsAmong(list[i].attribute_definitions) : i \in DOMAIN list}

PromiseIdsOfAction(action) ==
    LET extend == IF Has(action, "extend") THEN action.extend ELSE EmptyDict
    IN  PromiseIdsAmong(ListAt(extend, "values"))
        \cup PromiseIdsAmong(ListAt(extend, "attribute_definitions"))
        \cup PromiseIdsOfDataTypes(ListAt(extend, "data_type_definitions"))
        \cup PromiseIdsOfRequirementTypes(ListAt(extend, "requirement_types"))
        \cup UNION {PromiseIdsOfDataTypes(
                        extend.requirement_types_folders[k].data_type_definitions)
                    \cup PromiseIdsOfRequirementTypes(
                        extend.requirement_types_folders[k].requirement_types) :
                      k \in DOMAIN ListAt(extend, "requirement_types_folders")}

Promises(actions) == UNION {PromisesOfAction(actions[i]) : i \in DOMAIN actions}

PromiseIds(actions) == UNION {PromiseIdsOfAction(actions[i]) : i \in DOMAIN actions}

\* C9: every Promise referenced in a computed change set carries the
\* promise_id of a create-descriptor of the same change set.
C9_PromisesAreFulfilled ==
    Computed => Promises(ChangeSet) \subseteq PromiseIds(ChangeSet)

(***************************************************************************)
(* The create-descriptors of attribute definitions and of data type        *)
(* definitions of a change set, wherever they are nested.                  *)
(***************************************************************************)
ExtendOf(action) == IF Has(action, "extend") THEN action.extend ELSE EmptyDict

DefinitionsOfRequirementTypes(list) ==
    Flatten([i \in DOMAIN list |-> list[i].attribute_definitions])

DefinitionDescriptors(actions) ==
    Flatten([i \in DOMAIN actions |->
        ListAt(ExtendOf(actions[i]), "attribute_definitions")
        \o DefinitionsOfRequirementTypes(
               ListAt(ExtendOf(actions[i]), "requirement_types"))
        \o Flatten([k \in DOMAIN ListAt(ExtendOf(actions[i]),
                                        "requirement_types_folders") |->
               DefinitionsOfRequirementTypes(
                   ExtendOf(actions[i]).requirement_types_folders[k]
                       .requirement_types)])])

DataTypeDescriptors(actions) ==
    Flatten([i \in DOMAIN actions |->
        ListAt(ExtendOf(actions[i]), "data_type_definitions")
        \o Flatten([k \in DOMAIN ListAt(ExtendOf(actions[i]),
                                        "requirement_types_folders") |->
               ExtendOf(actions[i]).requirement_types_folders[k]
                   .data_type_definitions])])

PromisedOnce(reference, descriptors) ==
    /\ IsPromise(reference)
    /\ Cardinality({i \in DOMAIN descriptors :
                      descriptors[i].promise_id = reference.identifier}) = 1

\* C10: when the target module has no Types-Folder, every Enum attribute
\* definition create-descriptor of the change set references its data type
\* by a Promise that is the promise_id of exactly one data type definition
\* create-descriptor of the same change set.
C10_EnumDefinitionPromisesItsDataType ==
    Computed /\ tc.reqt_folder = None =>
        \A i \in DOMAIN DefinitionDescriptors(ChangeSet) :
            DefinitionDescriptors(ChangeSet)[i]._type = "AttributeDefinitionEnumeration"
            => PromisedOnce(DefinitionDescriptors(ChangeSet)[i].data_type,
                            DataTypeDescriptors(ChangeSet))

(***************************************************************************)
(* Unchanged nodes.  A node of the model that the snapshot matches is      *)
(* unchanged when every field the snapshot gives for it equals the field   *)
(* of the model: its plain fields, the members of its collections and,     *)
(* for a requirement type and a work item, the definitions and the         *)
(* attribute values the snapshot nests in its entry.                       *)
(***************************************************************************)
ModuleOf == find_by(model, config["capella-uuid"], {"CapellaModule"}, "uuid", None)

TypesFolderOf ==
    find_by_identifier(model, TYPES_FOLDER_IDENTIFIER, "CapellaTypesFolder", ModuleOf)

ItemIds(items, folder) ==
    {items[i].id : i \in {j \in DOMAIN items : IsFolderItem(items[j]) = folder}}

SameMembers(parent, items) ==
    /\ Identifiers(model, folders(model, parent)) = ItemIds(items, TRUE)
    /\ Identifiers(model, requirements(model, parent)) = ItemIds(items, FALSE)

UnchangedModule ==
    /\ model.objs[ModuleOf].identifier = snapshot.id
    /\ model.objs[ModuleOf].long_name = snapshot.long_name
    /\ TypesFolderOf # None
    /\ SameMembers(ModuleOf, snapshot.items)

UnchangedTypesFolder ==
    /\ Identifiers(model, data_type_definitions(model, TypesFolderOf))
           = KeysOf(snapshot.data_types)
    /\ Identifiers(model, requirement_types(model, TypesFolderOf))
           = KeysOf(snapshot.requirement_types)

UnchangedDataType(dtdef, ddef) ==
    /\ model.objs[dtdef].long_name = ddef.long_name
    /\ Identifiers(model, enum_values(model, dtdef)) = KeysOf(ddef.values)

UnchangedDefinition(attrdef, data) ==
    /\ model.objs[attrdef].long_name = data.long_name
    /\ data.type = "Enum" =>
          /\ model.objs[attrdef].kind = "AttributeDefinitionEnumeration"
          /\ model.objs[attrdef].data_type # None
          /\ model.objs[model.objs[attrdef].data_type].identifier = data.id
          /\ model.objs[attrdef].multi_valued = (data.multi_values = "True")

DefinitionOf(reqtype, data) ==
    by_single(model, attribute_definitions(model, reqtype), "identifier",
              data.id \o " " \o model.objs[reqtype].identifier)

UnchangedRequirementType(reqtype, item) ==
    /\ model.objs[reqtype].long_name = item.long_name
    /\ Identifiers(model, attribute_definitions(model, reqtype))
           = {item.attributes[i].id \o " " \o item.id : i \in DOMAIN item.attributes}
    /\ \A i \in DOMAIN item.attributes :
          /\ DefinitionOf(reqtype, item.attributes[i]) # None
          /\ UnchangedDefinition(DefinitionOf(reqtype, item.attributes[i]),
                                 item.attributes[i])

\* The attribute value of `req` for the snapshot attribute `id` of a work
\* item of type `type`, or None.
ValueOf(req, id, type) ==
    LET held == SelectSeq(attributes(model, req),
                    LAMBDA a : /\ model.objs[a].definition # None
                               /\ model.objs[model.objs[a].definition].identifier
                                      = id \o " " \o type)
    IN  IF Len(held) = 1 THEN held[1] ELSE None

UnchangedValue(attr, value) ==
    IF model.objs[attr].kind = "EnumerationValueAttribute"
    THEN /\ value.shape = "list"
         /\ Identifiers(model, model.objs[attr].values) = Range(value.val)
    ELSE /\ value.shape = model.objs[attr].value.shape
         /\ value.val = model.objs[attr].value.val

UnchangedWorkItem(req, item) ==
    /\ model.objs[req].long_name = item.long_name
    /\ "text" \in DOMAIN item => model.objs[req].text = item.text
    /\ model.objs[req].type # None
    /\ model.objs[model.objs[req].type].identifier = item.type
    /\ Len(attributes(model, req)) = Len(item.attributes)
    /\ \A i \in DOMAIN item.attributes :
          /\ ValueOf(req, item.attributes[i].id, item.type) # None
          /\ UnchangedValue(ValueOf(req, item.attributes[i].id, item.type),
                            item.attributes[i].value)
    /\ SameMembers(req, ChildrenOfItem(item))

UnchangedSchemaNodes ==
    IF TypesFolderOf = None THEN {}
    ELSE {u \in {TypesFolderOf} : UnchangedTypesFolder}
         \cup {u \in Range(data_type_definitions(model, TypesFolderOf)) :
                 /\ HasKey(snapshot.data_types, model.objs[u].identifier)
                 /\ UnchangedDataType(u, Entry(snapshot.data_types,
                                               model.objs[u].identifier))}
         \cup {u \in Range(requirement_types(model, TypesFolderOf)) :
                 /\ HasKey(snapshot.requirement_types, model.objs[u].identifier)
                 /\ UnchangedRequirementType(u, Entry(snapshot.requirement_types,
                                                      model.objs[u].identifier))}
         \cup UNION {{DefinitionOf(u, item.attributes[i]) :
                        i \in {j \in DOMAIN item.attributes :
                                 /\ DefinitionOf(u, item.attributes[j]) # None
                                 /\ UnchangedDefinition(
                                        DefinitionOf(u, item.attributes[j]),
                                        item.attributes[j])}} :
                     <<u, item>> \in
                        {<<v, Entry(snapshot.requirement_types,
                                    model.objs[v].identifier)>> :
                            v \in {w \in Range(requirement_types(model, TypesFolderOf)) :
                                     HasKey(snapshot.requirement_types,
                                            model.objs[w].identifier)}}}

UnchangedWorkItemNodes ==
    {Matched(node) : node \in {n \in SnapshotNodes :
                                 /\ Matched(n) # None
                                 /\ UnchangedWorkItem(Matched(n), n.item)}}
    \cup UNION {{ValueOf(Matched(node), node.item.attributes[i].id, node.item.type) :
                   i \in {j \in DOMAIN node.item.attributes :
                            /\ ValueOf(Matched(node), node.item.attributes[j].id,
                                       node.item.type) # None
                            /\ UnchangedValue(
                                   ValueOf(Matched(node), node.item.attributes[j].id,
                                           node.item.type),
                                   node.item.attributes[j].value)}} :
                node \in {n \in SnapshotNodes : Matched(n) # None}}

UnchangedNodes ==
    {u \in {ModuleOf} : UnchangedModule}
    \cup UnchangedSchemaNodes \cup UnchangedWorkItemNodes

Addressed(actions) == {actions[i].parent : i \in DOMAIN actions}

\* C5: no action of a computed change set consists of its parent alone, and
\* no action is addressed to a matched node (module, types folder,
\* requirement type, data type definition, attribute definition, folder,
\* requirement, attribute value) that the snapshot leaves unchanged.
C5_NoOpSuppression ==
    Computed =>
        /\ \A i \in DOMAIN ChangeSet : DOMAIN ChangeSet[i] # {"parent"}
        /\ \A u \in UnchangedNodes : UUIDReference(u) \notin Addressed(ChangeSet)

KindsOf(nodes) == {model.objs[u].kind : u \in nodes}

\* A computed change set that addresses changed nodes of the model while
\* nodes of every kind are unchanged.
C5_Witness ==
    /\ Computed
    /\ \E i \in DOMAIN ChangeSet :
          /\ IsUUIDReference(ChangeSet[i].parent)
          /\ ChangeSet[i].parent.uuid \notin UnchangedNodes
    /\ {"CapellaModule", "CapellaTypesFolder", "RequirementType",
        "EnumerationDataTypeDefinition", "AttributeDefinition",
        "AttributeDefinitionEnumeration", "Folder", "Requirement",
        "StringValueAttribute"} \subseteq KindsOf(UnchangedNodes)

(***************************************************************************)
(* C4: a snapshot whose change set is computed without an error and        *)
(* applied to the model yields an empty list of actions when the change    *)
(* set is computed again.                                                  *)
(***************************************************************************)
AppliedCleanly ==
    /\ applied # <<>>
    /\ ~applied[1].raised
    /\ applied[1].result.errors = <<>>

C4_Idempotence ==
    AppliedCleanly /\ pc = "done" =>
        result.status = "returned" /\ result.actions = <<>>

(***************************************************************************)
(* Deletion of vanished children.  DeleteList is what the change set       *)
(* deletes below a node under one key; Vanished is what the snapshot and   *)
(* the model say about it: the children of that kind whose identifier the  *)
(* snapshot does not keep below the node.                                  *)
(***************************************************************************)
DeleteList(uuid, key) ==
    UNION {Range(ChangeSet[i].delete[key]) :
             i \in {j \in DOMAIN ChangeSet :
                      /\ ChangeSet[j].parent = UUIDReference(uuid)
                      /\ Has(ChangeSet[j], "delete")
                      /\ Has(ChangeSet[j].delete, key)}}

ChildrenUnder(uuid, key) ==
    IF key = "folders" THEN folders(model, uuid) ELSE requirements(model, uuid)

Vanished(uuid, key, kept) ==
    {UUIDReference(u) : u \in {v \in Range(ChildrenUnder(uuid, key)) :
                                 model.objs[v].identifier \notin kept}}

MatchedFolders == {n \in SnapshotNodes : IsFolderItem(n.item) /\ Matched(n) # None}

VisitedAtTopLevel ==
    {n.item.id : n \in {k \in SnapshotNodes : k.parent = "" /\ Matched(k) # None}}

ListedAs(key) ==
    UNION {Range(Get(holder, key, <<>>)) :
           holder \in {Get(ChangeSet[i], "extend", EmptyDict) : i \in DOMAIN ChangeSet}
                      \cup Created(ChangeSet)}

CreatedAs(id, key) ==
    \E d \in ListedAs(key) : ~IsRef(d) /\ d.identifier = id

KeyOfKind(item) == IF "children" \in DOMAIN item THEN "folders" ELSE "requirements"

Returned == pc = "done" /\ result.status = "returned"

KindAddressed(action) ==
    IF IsUUIDReference(action.parent) /\ action.parent.uuid \in DOMAIN model.objs
    THEN model.objs[action.parent.uuid].kind ELSE None

\* The action creates, modifies or deletes a Types-Folder, a data-type
\* definition, a requirement type or an attribute definition.
SchemaAction(action) ==
    \/ KindAddressed(action)
          \in {"CapellaTypesFolder", "EnumerationDataTypeDefinition", "EnumValue",
               "RequirementType"} \cup AttributeDefinitionKinds
    \/ \E key \in {"extend", "delete"} :
          Has(Get(action, key, EmptyDict), "requirement_types_folders")

\* The action is addressed to a work item or to an attribute value.
ContentAction(action) ==
    KindAddressed(action) \in WorkItemKinds \cup AttributeValueKinds

(***************************************************************************)
(* C13: in the returned list of actions every action that creates,         *)
(* modifies or deletes schema objects precedes every action addressed to a *)
(* work item or to an attribute value, whether the Types-Folder exists or  *)
(* has to be created.                                                      *)
(***************************************************************************)
C13_SchemaBeforeContent ==
    Returned =>
        \A i, j \in DOMAIN result.actions :
            (SchemaAction(result.actions[i]) /\ ContentAction(result.actions[j]))
                => i < j

\* The pairs of a snapshot requirement type and one of its definitions.
SnapshotDefinitions ==
    UNION {{[type |-> snapshot.requirement_types[i],
             definition |-> snapshot.requirement_types[i].attributes[k]] :
                k \in DOMAIN snapshot.requirement_types[i].attributes} :
           i \in DOMAIN snapshot.requirement_types}

\* An Enum definition whose data type is neither in the model nor among the
\* data_types of the snapshot.
MissingDataType(definition) ==
    /\ definition.type = "Enum"
    /\ \A i \in DOMAIN snapshot.data_types : snapshot.data_types[i].id # definition.id
    /\ find_by_identifier(model, definition.id, "EnumerationDataTypeDefinition", None)
           = None

DefinitionIdentifier(sd) == sd.definition.id \o " " \o sd.type.id

DefinitionCreated(sd) ==
    \E i \in DOMAIN DefinitionDescriptors(ChangeSet) :
        DefinitionDescriptors(ChangeSet)[i].identifier = DefinitionIdentifier(sd)

MissingDataTypeError(sd) ==
    "In RequirementType '" \o sd.type.long_name
    \o "': Invalid AttributeDefinitionEnumeration found: '" \o sd.definition.id
    \o "'. Missing its datatype definition in data_types."

\* The work items that supply a value for the definition.
Suppliers(sd) ==
    {n \in SnapshotNodes :
        /\ n.item.type = sd.type.id
        /\ \E k \in DOMAIN n.item.attributes : n.item.attributes[k].id = sd.definition.id}

InvalidFieldValueError(id, attribute) ==
    \E message \in Range(tc.errors) \cup Range(tc.log) :
        Contains(message, "Invalid workitem '" \o id \o "'. Invalid field found: '"
                          \o attribute \o "'")

(***************************************************************************)
(* C14: for an Enum attribute definition whose data type is neither in the *)
(* model nor in the data_types of the snapshot, the computed change set    *)
(* holds no create-descriptor of the definition and exactly one error is   *)
(* recorded for it; every other definition the model lacks and every       *)
(* requirement type the model lacks is still created; every work item that *)
(* supplies a value for the attribute gets an InvalidFieldValue error, and *)
(* no action references a promise for the definition.                      *)
(***************************************************************************)
C14_MissingDataTypeDropsDefinition ==
    (Computed /\ gather_logs) =>
        \A sd \in SnapshotDefinitions :
            IF MissingDataType(sd.definition)
            THEN /\ ~DefinitionCreated(sd)
                 /\ Cardinality({i \in DOMAIN tc.errors :
                                   tc.errors[i] = MissingDataTypeError(sd)}) = 1
                 /\ \A n \in Suppliers(sd) :
                        InvalidFieldValueError(n.item.id, sd.definition.id)
                 /\ ("AttributeDefinitionEnumeration " \o DefinitionIdentifier(sd))
                        \notin Promises(ChangeSet)
            ELSE /\ find_by_identifier(model, DefinitionIdentifier(sd),
                        AttributeDefinitionClass(sd.definition.type), None) = None
                    => DefinitionCreated(sd)

\* The Enum-Values of the Types-Folder whose data-type definition is absent
\* from the snapshot or no longer lists them.
RemovedEnumValues ==
    {v \in Range(search(model, {"EnumValue"}, TypesFolderOf)) :
        \A i \in DOMAIN snapshot.data_types :
            snapshot.data_types[i].id = model.objs[model.objs[v].parent].identifier
                => \A k \in DOMAIN snapshot.data_types[i].values :
                       snapshot.data_types[i].values[k].id # model.objs[v].identifier}

ReferencesOfAttributeValue(d) == {r \in Range(ListAt(d, "values")) : IsUUIDReference(r)}

RECURSIVE ReferencesOfWorkItems(_)
ReferencesOfWorkItems(list) ==
    UNION {IF IsRef(list[i]) THEN {}
           ELSE UNION {ReferencesOfAttributeValue(list[i].attributes[k]) :
                          k \in DOMAIN ListAt(list[i], "attributes")}
                \cup ReferencesOfWorkItems(ListAt(list[i], "requirements"))
                \cup ReferencesOfWorkItems(ListAt(list[i], "folders")) :
           i \in DOMAIN list}

\* The UUID references to Enum-Values in the attribute values of a change
\* set: in create-descriptors and in modify actions.
EnumValueReferences(actions) ==
    UNION {ReferencesOfAttributeValue(Get(actions[i], "modify", EmptyDict))
           \cup ReferencesOfWorkItems(ListAt(ExtendOf(actions[i]), "requirements"))
           \cup ReferencesOfWorkItems(ListAt(ExtendOf(actions[i]), "folders"))
           \cup UNION {ReferencesOfAttributeValue(ExtendOf(actions[i]).attributes[k]) :
                          k \in DOMAIN ListAt(ExtendOf(actions[i]), "attributes")} :
           i \in DOMAIN actions}

(***************************************************************************)
(* C15: when the Types-Folder exists, the Enum-Values of the data-type     *)
(* definitions that are to be deleted and the Enum-Values a retained       *)
(* data-type definition loses are recorded in _evdeletions, and no         *)
(* attribute value of the computed change set, in a create-descriptor or   *)
(* in a modify action, references one of them by UUID.                     *)
(***************************************************************************)
C15_DeletedEnumValuesNotReferenced ==
    (Computed /\ TypesFolderOf # None) =>
        \A v \in RemovedEnumValues :
            /\ model.objs[v].identifier \in tc.evdeletions
            /\ UUIDReference(v) \notin EnumValueReferences(ChangeSet)

\* The work items of the snapshot in pre-order.
RECURSIVE PreOrder(_)
PreOrder(items) ==
    Flatten([i \in DOMAIN items |->
                <<items[i]>> \o PreOrder(ChildrenOfItem(items[i]))])

\* The recoverable errors a snapshot calls for, read from the snapshot: of
\* the schema, one for every Enum definition without a data type; of a work
\* item, one for attributes without a type, one for an unknown type, else
\* one for each attribute its type does not define or whose value is not
\* valid, blacklisted pairs and empty lists set aside.
ExpectedOfSchema ==
    Flatten([i \in DOMAIN snapshot.requirement_types |->
        LET type == snapshot.requirement_types[i]
            sd(k) == [type |-> type, definition |-> type.attributes[k]]
        IN  Flatten([k \in DOMAIN type.attributes |->
                IF MissingDataType(type.attributes[k])
                THEN <<[kind |-> "schema", text |-> MissingDataTypeError(sd(k))]>>
                ELSE <<>>])])

ExpectedOfItem(item) ==
    IF item.type = ""
    THEN IF item.attributes = <<>> THEN <<>>
         ELSE <<[kind |-> "missing type", id |-> item.id]>>
    ELSE IF UnknownType(item) THEN <<[kind |-> "unknown type", id |-> item.id]>>
    ELSE Flatten([k \in DOMAIN item.attributes |->
             IF Blacklisted(item.attributes[k])
                \/ item.attributes[k].value = Val("list", <<>>)
             THEN <<>>
             ELSE IF ~DefinedFor(item.attributes[k], item.type)
             THEN <<[kind |-> "undefined", id |-> item.id,
                     attribute |-> item.attributes[k].id]>>
             ELSE IF ~ValidValue(item.attributes[k], item.type)
             THEN <<[kind |-> "invalid", id |-> item.id,
                     attribute |-> item.attributes[k].id]>>
             ELSE <<>>])

ExpectedErrors ==
    ExpectedOfSchema
    \o Flatten([i \in DOMAIN PreOrder(snapshot.items) |->
                   ExpectedOfItem(PreOrder(snapshot.items)[i])])

\* The message reports the expected error.
Reports(message, expected) ==
    LET of_item == "Invalid workitem '" \o expected.id \o "'. "
    IN  CASE expected.kind = "schema" -> Contains(message, expected.text)
          [] expected.kind = "missing type" ->
                Contains(message, of_item \o "Missing type but attributes found")
          [] expected.kind = "unknown type" ->
                /\ Contains(message, of_item)
                /\ Contains(message, "Unknown workitem-type")
          [] expected.kind = "undefined" ->
                Contains(message, of_item \o "Invalid field found: field identifier '"
                                  \o expected.attribute \o "' not defined")
          [] expected.kind = "invalid" ->
                /\ Contains(message, of_item \o "Invalid field found: ")
                /\ Contains(message, "'" \o expected.attribute \o "'")
                /\ ~Contains(message, "not defined")

ReportsAll(messages) ==
    /\ Len(messages) = Len(ExpectedErrors)
    /\ \A i \in DOMAIN messages : Reports(messages[i], ExpectedErrors[i])

(***************************************************************************)
(* C16: with gather_logs = True TrackerChange.errors holds one message for *)
(* every recoverable error of the snapshot and no other, in the order      *)
(* schema first, then the work items in pre-order, each with its           *)
(* attributes in snapshot order; with gather_logs = False the same         *)
(* messages are logged in that order and TrackerChange.errors is empty.    *)
(***************************************************************************)
C16_ErrorsOnceInOrder ==
    Computed =>
        IF gather_logs
        THEN ReportsAll(tc.errors) /\ tc.log = <<>>
        ELSE ReportsAll(tc.log) /\ tc.errors = <<>>

(***************************************************************************)
(* C17: no step of the bridge before the change set is applied, neither a  *)
(* lookup of the Object Finder nor a step of the change-set calculation,   *)
(* modifies the model.                                                     *)
(***************************************************************************)
C17_ReadOnlyDiff == [][model' = model]_vars

\* The attribute-value create-descriptors of a work item of the snapshot: in
\* its create-descriptor or in the extend of the action addressed to it.
CreatedValuesOf(node) ==
    UNION {Range(ListAt(d, "attributes")) :
           d \in {c \in Created(ChangeSet) : c.identifier = node.item.id}}
    \cup UNION {Range(CreatedAttributes(ChangeSet[i])) :
                i \in {j \in DOMAIN ChangeSet :
                          /\ Matched(node) # None
                          /\ ChangeSet[j].parent = UUIDReference(Matched(node))}}

\* The Enum-Value of the option under the data-type definition of the
\* attribute in the Types-Folder of the target module, or None.
EnumValueOf(attribute, option) ==
    LET dtdef == IF TypesFolderOf = None THEN None
                 ELSE find_by_identifier(model, attribute,
                          "EnumerationDataTypeDefinition", TypesFolderOf)
    IN  IF dtdef = None THEN None
        ELSE find_by_identifier(model, option, "EnumValue", dtdef)

OptionReference(attribute, option) ==
    IF EnumValueOf(attribute, option) # None /\ option \notin tc.evdeletions
    THEN UUIDReference(EnumValueOf(attribute, option))
    ELSE Promise("EnumValue " \o attribute \o " " \o option)

(***************************************************************************)
(* C18: a created Enum attribute value references each option of the       *)
(* snapshot value on its own, in order: by UUID when an Enum-Value of that *)
(* identifier exists under the data-type definition of the attribute in    *)
(* the Types-Folder of the target module and is not in _evdeletions, else  *)
(* by the Promise "EnumValue <attribute> <option>".                        *)
(***************************************************************************)
C18_EnumOptionReferences ==
    Computed =>
        \A n \in SnapshotNodes :
            \A k \in DOMAIN n.item.attributes :
                \A d \in CreatedValuesOf(n) :
                    (/\ Has(d, "values")
                     /\ CreatesValueOf(d, n.item.attributes[k].id, n.item.type))
                        => d.values =
                              [i \in DOMAIN n.item.attributes[k].value.val |->
                                  OptionReference(n.item.attributes[k].id,
                                                  n.item.attributes[k].value.val[i])]

\* The data-type definition of the Types-Folder with this identifier, or
\* None.
DataTypeOf(id) ==
    by_single(model, data_type_definitions(model, TypesFolderOf), "identifier", id)

ActionsOn(uuid) == {i \in DOMAIN ChangeSet : ChangeSet[i].parent = UUIDReference(uuid)}

NewOptions(ddef) ==
    SelectSeq(ddef.values,
        LAMBDA value : \A v \in Range(enum_values(model, DataTypeOf(ddef.id))) :
                          model.objs[v].identifier # value.id)

GoneOptions(ddef) ==
    {v \in Range(enum_values(model, DataTypeOf(ddef.id))) :
        \A k \in DOMAIN ddef.values : ddef.values[k].id # model.objs[v].identifier}

Renamed(ddef) == model.objs[DataTypeOf(ddef.id)].long_name # ddef.long_name

\* The action states exactly the three differences.
StatesDifferences(action, ddef) ==
    /\ DOMAIN action =
           {"parent"} \cup (IF NewOptions(ddef) # <<>> THEN {"extend"} ELSE {})
                      \cup (IF GoneOptions(ddef) # {} THEN {"delete"} ELSE {})
                      \cup (IF Renamed(ddef) THEN {"modify"} ELSE {})
    /\ NewOptions(ddef) # <<>> =>
           action.extend =
               [values |-> [k \in DOMAIN NewOptions(ddef) |->
                   [identifier |-> NewOptions(ddef)[k].id,
                    long_name |-> NewOptions(ddef)[k].long_name,
                    promise_id |-> "EnumValue " \o ddef.id \o " "
                                   \o NewOptions(ddef)[k].id]]]
    /\ GoneOptions(ddef) # {} =>
           /\ DOMAIN action.delete = {"values"}
           /\ Len(action.delete.values) = Cardinality(GoneOptions(ddef))
           /\ Range(action.delete.values) = {UUIDReference(v) : v \in GoneOptions(ddef)}
    /\ Renamed(ddef) => action.modify = [long_name |-> ddef.long_name]

(***************************************************************************)
(* C19: when the Types-Folder exists, a data-type definition of the        *)
(* snapshot that exists in it gets no action if it has no new option, no   *)
(* option that is gone and the same long_name, and otherwise one action    *)
(* addressed to it whose extend.values are the snapshot options the model  *)
(* lacks, whose delete.values are the model options the snapshot lacks and *)
(* whose modify.long_name is present iff the long_name differs; every      *)
(* data-type definition of the Types-Folder that is absent from the        *)
(* snapshot is listed in delete.data_type_definitions of the action        *)
(* addressed to the Types-Folder.                                          *)
(***************************************************************************)
C19_DataTypeModActions ==
    (Computed /\ TypesFolderOf # None) =>
        /\ \A i \in DOMAIN snapshot.data_types :
               DataTypeOf(snapshot.data_types[i].id) # None =>
                   IF /\ NewOptions(snapshot.data_types[i]) = <<>>
                      /\ GoneOptions(snapshot.data_types[i]) = {}
                      /\ ~Renamed(snapshot.data_types[i])
                   THEN ActionsOn(DataTypeOf(snapshot.data_types[i].id)) = {}
                   ELSE /\ Cardinality(ActionsOn(DataTypeOf(snapshot.data_types[i].id))) = 1
                        /\ \A j \in ActionsOn(DataTypeOf(snapshot.data_types[i].id)) :
                               StatesDifferences(ChangeSet[j], snapshot.data_types[i])
        /\ \A u \in Range(data_type_definitions(model, TypesFolderOf)) :
               ~HasKey(snapshot.data_types, model.objs[u].identifier) =>
                   \E j \in ActionsOn(TypesFolderOf) :
                       /\ Has(ChangeSet[j], "delete")
                       /\ UUIDReference(u)
                              \in Range(ListAt(ChangeSet[j].delete, "data_type_definitions"))

\* The data type Kind of the Types-Folder gains option c and loses option b.
C19_Witness ==
    /\ Computed
    /\ TypesFolderOf # None
    /\ \E i \in DOMAIN snapshot.data_types :
          /\ DataTypeOf(snapshot.data_types[i].id) # None
          /\ NewOptions(snapshot.data_types[i]) # <<>>
          /\ GoneOptions(snapshot.data_types[i]) # {}
          /\ ActionsOn(DataTypeOf(snapshot.data_types[i].id)) # {}

\* The native shape a declared kind expects.
ExpectedShape ==
    [Boolean |-> "bool", Integer |-> "int", Float |-> "float", String |-> "str",
     Date |-> "datetime", Enum |-> "list"]

\* The attributes the work items of the snapshot supply, with the kind their
\* requirement type declares.
SuppliedPairs ==
    UNION {{[id |-> n.item.attributes[k].id, value |-> n.item.attributes[k].value,
             type |-> n.item.type,
             kind |-> Entry(Entry(snapshot.requirement_types, n.item.type).attributes,
                            n.item.attributes[k].id).type] :
               k \in {j \in DOMAIN n.item.attributes :
                         DefinedFor(n.item.attributes[j], n.item.type)}} :
           n \in SnapshotNodes}

ShouldBeRejected(pair) ==
    \/ pair.value.shape # ExpectedShape[pair.kind]
    \/ /\ pair.kind = "Enum"
       /\ \/ ~HasKey(snapshot.data_types, pair.id)
          \/ Range(pair.value.val)
                 \cap KeysOf(Entry(snapshot.data_types, pair.id).values) = {}

(***************************************************************************)
(* C20: for every pair of a declared kind and a snapshot value,            *)
(* check_attribute_value_is_valid raises InvalidFieldValue iff the native  *)
(* shape of the value is not the one the kind expects (Boolean: bool,      *)
(* Integer: int, Float: float, String: str, Date: datetime, Enum: list)    *)
(* or, for an Enum, the data type of the attribute is missing from the     *)
(* snapshot or the list shares no option with the declared options.        *)
(***************************************************************************)
C20_InvalidFieldValueIff ==
    pc = "done" =>
        \A pair \in SuppliedPairs :
            (check_attribute_value_is_valid(pair.id, pair.value, pair.type).exc
                 = "InvalidFieldValue")
                <=> ShouldBeRejected(pair)

\* The recoverable errors recorded, gathered or logged, and how many of them
\* report the expected error.
Messages == tc.errors \o tc.log

Recorded(expected) ==
    Cardinality({i \in DOMAIN Messages : Reports(Messages[i], expected)})

RecordedFor(id) ==
    Cardinality({i \in DOMAIN Messages :
                    Contains(Messages[i], "Invalid workitem '" \o id \o "'. ")})

\* The attributes of a snapshot item that its type, known to the snapshot,
\* does not define, the pair (Type, Folder) of the blacklist set aside.
Undeclared(item) ==
    IF item.type = "" \/ UnknownType(item) THEN {}
    ELSE {k \in DOMAIN item.attributes :
             /\ ~DefinedFor(item.attributes[k], item.type)
             /\ ~Blacklisted(item.attributes[k])}

\* A new work item is created with a value for each accepted attribute.
StillProcessed(node) ==
    \E d \in Created(ChangeSet) :
        /\ d.identifier = node.item.id
        /\ Len(ListAt(d, "attributes")) = Len(Accepted(node.item))
        /\ \A i \in DOMAIN Accepted(node.item) :
              CreatesValueOf(d.attributes[i], Accepted(node.item)[i].id, node.item.type)

(***************************************************************************)
(* C21: a work item with attributes and no type records one error, Missing *)
(* type but attributes found, whatever the number of its attributes; an    *)
(* attribute that the type of its item does not define records one error   *)
(* naming that attribute; no attribute value is created for either, and    *)
(* the new work items of the snapshot are created all the same, each with  *)
(* the attributes that are valid.                                          *)
(***************************************************************************)
C21_OneErrorPerOffence ==
    Computed =>
        \A node \in SnapshotNodes :
            /\ (node.item.type = "" /\ node.item.attributes # <<>>) =>
                  /\ RecordedFor(node.item.id) = 1
                  /\ Recorded([kind |-> "missing type", id |-> node.item.id]) = 1
                  /\ CreatedValuesOf(node) = {}
            /\ \A k \in Undeclared(node.item) :
                  /\ Recorded([kind |-> "undefined", id |-> node.item.id,
                               attribute |-> node.item.attributes[k].id]) = 1
                  /\ \A d \in CreatedValuesOf(node) :
                        ~CreatesValueOf(d, node.item.attributes[k].id, node.item.type)
            /\ (Matched(node) = None /\ ~UnknownType(node.item)) => StillProcessed(node)

\* The matched work items of the snapshot whose type is the type of their
\* object, those skipped for a key that is no field of the object set aside.
SameType(node) ==
    /\ Matched(node) # None
    /\ "unknown_key" \notin DOMAIN node.item
    /\ model.objs[Matched(node)].type # None
    /\ model.objs[model.objs[Matched(node)].type].identifier = node.item.type

\* The snapshot item holds an attribute of the name the definition of the
\* attribute value was made for.
NamedInSnapshot(value, item) ==
    \E k \in DOMAIN item.attributes :
        model.objs[model.objs[value].definition].identifier
            = item.attributes[k].id \o " " \o item.type

Rejected(attr, item) ==
    DefinedFor(attr, item.type) /\ ~ValidValue(attr, item.type)

ErrorFree == ExpectedErrors = <<>>

DistinctIds ==
    \A i, j \in DOMAIN PreOrder(snapshot.items) :
        PreOrder(snapshot.items)[i].id = PreOrder(snapshot.items)[j].id => i = j

(***************************************************************************)
(* C23: for an error-free snapshot with distinct work-item ids and an      *)
(* existing module the calculation of the change set ends without an       *)
(* exception that is not handled, whatever is moved, deleted and created:  *)
(* also when the children of a folder move away and leave its action       *)
(* empty, and when a work item staged for deletion below its old parent is *)
(* found at the top level of the module.                                   *)
(***************************************************************************)
C23_NoUnhandledException ==
    (pc = "done" /\ ErrorFree /\ DistinctIds /\ ModuleOf # None) =>
        tc.exc = None /\ result.status = "returned"

\* The requirement types of the snapshot that the Types-Folder of the module
\* holds, each with a definition of the snapshot.
MatchedDefinitions ==
    {sd \in SnapshotDefinitions :
        /\ TypesFolderOf # None
        /\ find_by_identifier(model, sd.type.id, "RequirementType", TypesFolderOf)
               # None}

RequirementTypeOf(sd) ==
    find_by_identifier(model, sd.type.id, "RequirementType", TypesFolderOf)

\* The create-descriptors of attribute definitions in the actions addressed
\* to the requirement type.
DefinitionsCreatedUnder(reqtype) ==
    UNION {Range(ListAt(ExtendOf(ChangeSet[i]), "attribute_definitions")) :
           i \in ActionsOn(reqtype)}

(***************************************************************************)
(* C24: for a definition of a requirement type that the model holds, a     *)
(* create-descriptor is emitted only when the type has no attribute        *)
(* definition of the identifier "<name> <type id>"; for a definition that  *)
(* exists there is no action or one modify action addressed to it,         *)
(* whatever multi_valued is in the model and whether or not multi_values   *)
(* is in the snapshot.                                                     *)
(***************************************************************************)
C24_CreateOnlyWhenMissing ==
    Computed =>
        \A sd \in MatchedDefinitions :
            DefinitionOf(RequirementTypeOf(sd), sd.definition) # None =>
                /\ \A d \in DefinitionsCreatedUnder(RequirementTypeOf(sd)) :
                      d.identifier # DefinitionIdentifier(sd)
                /\ Cardinality(ActionsOn(DefinitionOf(RequirementTypeOf(sd),
                                                      sd.definition))) <= 1
                /\ \A i \in ActionsOn(DefinitionOf(RequirementTypeOf(sd),
                                                    sd.definition)) :
                      DOMAIN ChangeSet[i] = {"parent", "modify"}

\* Every reference in a delete list of work items of the change set.
DeletedWorkItems ==
    UNION {Range(ListAt(ChangeSet[i].delete, "requirements"))
           \cup Range(ListAt(ChangeSet[i].delete, "folders")) :
           i \in {j \in DOMAIN ChangeSet : Has(ChangeSet[j], "delete")}}

(***************************************************************************)
(* C25: a work item of the model whose snapshot entry is rejected with a   *)
(* recoverable error (a key that is no field, an unknown type, an invalid  *)
(* attribute value) is in no delete list of the change set, be its entry   *)
(* at top level or below a folder.                                         *)
(***************************************************************************)
C25_RejectedItemNotDeleted ==
    Computed =>
        \A node \in SnapshotNodes :
            (Matched(node) # None /\ Erroring(node.item.id)) =>
                UUIDReference(Matched(node)) \notin DeletedWorkItems

(***************************************************************************)
(* C26: for a snapshot with distinct work-item ids no two actions of the   *)
(* returned list are addressed to the same object: the module, the         *)
(* Types-Folder, a requirement type, a data-type definition, an attribute  *)
(* definition, a folder, a requirement and an attribute value have one     *)
(* action each at most.                                                    *)
(***************************************************************************)
C26_OneActionPerObject ==
    (Returned /\ DistinctIds) =>
        \A i, j \in DOMAIN result.actions :
            result.actions[i].parent = result.actions[j].parent => i = j

\* A forced run returns the action of the module, that of a work item and
\* that of an attribute value.
C26_Witness ==
    /\ Returned /\ DistinctIds /\ force
    /\ {"CapellaModule", "Requirement"} \subseteq
           {model.objs[result.actions[i].parent.uuid].kind : i \in DOMAIN result.actions}
    /\ \E i \in DOMAIN result.actions :
          model.objs[result.actions[i].parent.uuid].kind \in AttributeValueKinds

\* The objects below a node of the content tree that an action may address:
\* its attribute values, and the objects matched by the work items below it
\* in the snapshot with their attribute values.
WithValues(uuid) == {uuid} \cup Range(attributes(model, uuid))

MatchedBelow(items, id) ==
    UNION {WithValues(Matched(n)) :
           n \in {d \in Nodes(items, id) : Matched(d) # None}}

Follows(uuid, later) ==
    \A i \in ActionsOn(uuid) :
        \A j \in DOMAIN ChangeSet :
            ChangeSet[j].parent.uuid \in later => i < j

OwnActionFirst(node) ==
    Follows(Matched(node),
            Range(attributes(model, Matched(node)))
            \cup MatchedBelow(ChildrenOfItem(node.item), node.item.id))

RequirementsTurnedFolder ==
    {n \in SnapshotNodes :
        /\ "children" \in DOMAIN n.item
        /\ \E f \in MatchedFolders :
              /\ f.item.id = n.parent
              /\ \E r \in Range(requirements(model, Matched(f))) :
                    model.objs[r].identifier = n.item.id}

FolderOf(node) == Matched(CHOOSE f \in MatchedFolders : f.item.id = node.parent)

create_errors_statement(errors) == Join("\n", errors)

\* RMReporter.create_commit_message, its summary line.
create_commit_message(store) ==
    IF store THEN "Updated model with RM content" ELSE "No changes identified"

NextModule(modules) ==
    /\ snapshot' = Head(modules).snapshot
    /\ config' = Head(modules).config
    /\ pc' = "construct"
    /\ tc' = NewTrackerChange
    /\ items_left' = <<>>
    /\ result' = Pending

\* Lines 162-174: errors is bound anew, a non-empty change set is applied.
MainStep ==
    /\ pc = "done"
    /\ cli.exit = "running"
    /\ IF \/ result.status = "raised"
          \/ result.actions # <<>> /\ apply(model, result.actions).raised
       THEN /\ cli' = [cli EXCEPT !.exit = "exception"]
            /\ UNCHANGED <<model, snapshot, config, pc, tc, items_left, result>>
       ELSE /\ model' = IF result.actions # <<>>
                        THEN apply(model, result.actions).model ELSE model
            /\ cli' = [cli EXCEPT !.errors = result.errors,
                                  !.returned = Append(@, result.errors),
                                  !.store = @ \/ result.actions # <<>>,
                                  !.modules = IF @ = <<>> THEN @ ELSE Tail(@)]
            /\ IF cli.modules # <<>> THEN NextModule(cli.modules)
               ELSE /\ pc' = "report"
                    /\ UNCHANGED <<snapshot, config, tc, items_left, result>>
    /\ UNCHANGED <<force, safe_mode, gather_logs, log, applied, auditor>>

\* Lines 176-199.
Report ==
    /\ pc = "report"
    /\ cli.exit = "running"
    /\ LET commit == force \/ cli.errors = <<>>
           commit_message == create_commit_message(cli.store)
           failed == cli.errors # <<>>
           report == IF cli.store THEN "change report" ELSE ""
       IN  cli' = [cli EXCEPT
                !.commit_message = IF commit THEN commit_message ELSE @,
                !.saved = commit /\ cli.store /\ ~cli.dry_run,
                !.printed =
                    (IF commit THEN <<commit_message>> ELSE <<>>)
                    \o (IF failed THEN <<create_errors_statement(cli.errors)>>
                        ELSE IF report # "" /\ cli.save_change_history THEN <<>>
                        ELSE <<report>>),
                !.error_log = IF failed /\ cli.save_error_log
                              THEN create_errors_statement(cli.errors) ELSE @,
                !.history = IF ~failed /\ report # "" /\ cli.save_change_history
                            THEN report ELSE @,
                !.exit = IF failed THEN "1" ELSE "0"]
    /\ pc' = "exit"
    /\ UNCHANGED <<model, snapshot, config, force, safe_mode, gather_logs, tc,
                   items_left, log, result, applied, auditor>>

Run == Next \/ MainStep \/ Report

(***************************************************************************)
(* The runs of main: a model with three modules, a snapshot file with two  *)
(* or three modules.  A module of the file is good (one new requirement),  *)
(* bad (a new requirement with attributes and no type, a recoverable       *)
(* error) or configured with the UUID of no module (a fatal error of that  *)
(* tracker).                                                               *)
(***************************************************************************)
MaxModules == 3

MainModel ==
    BuildModel(<<TargetModule>> \o ForeignObjects
               \o << <<"m3", Obj("CapellaModule", None, "third", "Third Module")>> >>)

ModuleTargets ==
    <<[uuid |-> "m1", id |-> "mod", long_name |-> "Module", item |-> "N1"],
      [uuid |-> "m2", id |-> "other", long_name |-> "Other Module", item |-> "N2"],
      [uuid |-> "m3", id |-> "third", long_name |-> "Third Module", item |-> "N3"]>>

ModuleEntry(target, kind) ==
    [snapshot |->
        [Snapshot(<<KindDataType>>, MigratedTypes,
                  <<Requirement(target.item, "Req " \o target.item,
                                IF kind = "bad" THEN "" ELSE "RT",
                                <<[id |-> "Name", value |-> Val("str", "n")]>>)>>)
         EXCEPT !.id = target.id, !.long_name = target.long_name],
     config |-> ("capella-uuid" :> IF kind = "missing" THEN "gone" ELSE target.uuid)]

ModuleLists ==
    UNION {{[i \in 1..n |-> ModuleEntry(ModuleTargets[i], kinds[i])] :
               kinds \in [1..n -> {"good", "bad", "missing"}]} :
           n \in 2..MaxModules}

InitMain ==
    /\ model = MainModel
    /\ force \in BOOLEAN
    /\ safe_mode = TRUE
    /\ \E modules \in ModuleLists, dry_run, save_error_log, save_change_history \in BOOLEAN :
          /\ snapshot = Head(modules).snapshot
          /\ config = Head(modules).config
          /\ gather_logs \in {TRUE, save_change_history}
          /\ cli = [dry_run |-> dry_run, save_error_log |-> save_error_log,
                    save_change_history |-> save_change_history,
                    modules |-> Tail(modules), errors |-> <<>>, returned |-> <<>>,
                    store |-> FALSE, printed |-> <<>>, commit_message |-> None,
                    error_log |-> None, history |-> None, saved |-> FALSE,
                    exit |-> "running"]
    /\ pc = "construct"
    /\ tc = NewTrackerChange
    /\ items_left = <<>>
    /\ log = <<>>
    /\ result = Pending
    /\ applied = <<>>
    /\ auditor = NoAuditor

SpecMain == InitMain /\ [][Run]_vars

\* The error messages calculate_change_set returned, module by module.
ReturnedErrors == Flatten(cli.returned)

Exited == cli.exit \in {"0", "1"}

(***************************************************************************)
(* C29: when the change-set calculation of any module of the run returned  *)
(* errors, the errors of all modules are printed and, with                 *)
(* --save-error-log, written to the error file, the exit status is 1, and  *)
(* without --force no commit message is written and the model is not       *)
(* saved, wherever the erroring module stands in the snapshot.             *)
(***************************************************************************)
C29_ErrorsOfEveryModuleReported ==
    (Exited /\ ReturnedErrors # <<>>) =>
        /\ cli.exit = "1"
        /\ \A i \in DOMAIN ReturnedErrors :
              /\ \E k \in DOMAIN cli.printed :
                    Contains(cli.printed[k], ReturnedErrors[i])
              /\ cli.save_error_log => Contains(cli.error_log, ReturnedErrors[i])
        /\ ~force => cli.commit_message = None /\ ~cli.saved

(***************************************************************************)
(* auditing.ChangeAuditor.  The auditor registers an audit hook; the hook  *)
(* is called with (event, args) before capellambse performs a mutation.    *)
(* args[0] is the object about to change: its model, its UUID and the name *)
(* of its class.  A value is an element of a model (with UUID, class and   *)
(* long_name) or a plain value.  auditor.model is kept as `attached`: True *)
(* while it is the audited model, False once detach() set it to None.      *)
(* `raised` is the history of the events raised and of the calls of        *)
(* detach() and __exit__().                                                *)
(***************************************************************************)
ChangeAuditor(classes) ==
    [attached |-> TRUE, classes |-> classes, context |-> <<>>, raised |-> <<>>,
     entered |-> FALSE]

Element(m, u) ==
    [element |-> TRUE, uuid |-> u, kind |-> m.objs[u].kind,
     long_name |-> m.objs[u].long_name]

\* The index of an event raised without one (None); list indices start at 1.
NoIndex == 0

Plain(v) == [element |-> FALSE, val |-> v]

\* isinstance(value, GenericElement), for an element or a list of elements.
IsGenericElement(value) == DOMAIN value = {"element", "uuid", "kind", "long_name"}

_short_repr_(e) == "<" \o e.kind \o " '" \o e.long_name \o "' (" \o e.uuid \o ")>"

_get_value_repr(value) == IF value.element THEN _short_repr_(value) ELSE value.val

\* getattr(obj, attr_name) on an object of the audited model.
getattr(m, u, attr_name) ==
    CASE attr_name = "long_name" -> Plain(m.objs[u].long_name)
      [] attr_name = "requirements" ->
            [i \in DOMAIN requirements(m, u) |-> Element(m, requirements(m, u)[i])]
      [] attr_name = "folders" ->
            [i \in DOMAIN folders(m, u) |-> Element(m, folders(m, u)[i])]
      [] attr_name = "values" ->
            [i \in DOMAIN m.objs[u].values |-> Element(m, m.objs[u].values[i])]
      [] OTHER -> Element(m, m.objs[u].type)

change_events ==
    [e \in {"capellambse.setattr", "capellambse.setitem"} |-> "Modification"]
    @@ [e \in {"capellambse.delete"} |-> "Deletion"]
    @@ [e \in {"capellambse.create", "capellambse.insert"} |-> "Extension"]

Modification(parent, attribute, new, old) ==
    [_type |-> "Modification", parent |-> parent, attribute |-> attribute,
     new |-> new, old |-> old]

Extension(EventType, parent, attribute, element, uuid) ==
    [_type |-> EventType, parent |-> parent, attribute |-> attribute,
     element |-> element, uuid |-> uuid]

\* The variant of detach() that keeps the reference to the model.
detach_Kept(a) == a

detach(a) == [a EXCEPT !.attached = FALSE]

\* ChangeAuditor.__audit: the auditor after the hook has run.
__audit(a, m, event, args) ==
    LET obj == args.obj
        oval == getattr(m, obj.uuid, args.attr_name)
        events ==
            CASE event = "capellambse.setattr" ->
                    <<Modification(obj.uuid, args.attr_name,
                                   _get_value_repr(args.value), _get_value_repr(oval))>>
              [] event = "capellambse.setitem" ->
                    <<Modification(obj.uuid, args.attr_name,
                                   _get_value_repr(args.value),
                                   _get_value_repr(oval[args.index]))>>
              [] event = "capellambse.delete" ->
                    IF args.index # NoIndex
                    THEN <<Extension("Deletion", obj.uuid, args.attr_name,
                                     _get_value_repr(oval[args.index]),
                                     oval[args.index].uuid)>>
                    ELSE IF IsGenericElement(oval)
                    THEN <<Extension("Deletion", obj.uuid, args.attr_name,
                                     _get_value_repr(oval), oval.uuid)>>
                    ELSE [i \in DOMAIN oval |->
                             Extension("Deletion", obj.uuid, args.attr_name,
                                       _get_value_repr(oval[i]), oval[i].uuid)]
              [] OTHER ->
                    <<Extension("Extension", obj.uuid, args.attr_name,
                                _get_value_repr(args.value), args.value.uuid)>>
    IN  IF event \notin DOMAIN change_events THEN a
        ELSE IF obj._model # (IF a.attached THEN "audited" ELSE None) THEN a
        ELSE IF a.classes # {} /\ obj.class \notin a.classes THEN a
        ELSE [a EXCEPT !.context = @ \o events]

(***************************************************************************)
(* The mutations capellambse performs after the hook has returned, and the *)
(* events raised on the migrated model: long_name is set; an option of an  *)
(* enumeration value is replaced; one child or every child of a list is    *)
(* deleted; the type of a requirement is deleted; a requirement is         *)
(* inserted below another parent; a requirement is created.  The same      *)
(* events are raised on an object of another model, and Python raises      *)
(* events of its own ("open").                                             *)
(***************************************************************************)
MaxEvents == 3

Subject(m, u) == [_model |-> "audited", uuid |-> u, class |-> m.objs[u].kind]

Stranger == [_model |-> "other", uuid |-> "x1", class |-> "Requirement"]

CreatedElement == [element |-> TRUE, uuid |-> "new", kind |-> "Requirement",
            long_name |-> "CreatedElement"]

Removed(m, args) ==
    LET oval == getattr(m, args.obj.uuid, args.attr_name)
    IN  IF args.index # NoIndex THEN <<oval[args.index].uuid>>
        ELSE IF args.attr_name = "type" THEN <<>>
        ELSE [i \in DOMAIN oval |-> oval[i].uuid]

Mutated(m, event, args) ==
    LET u == args.obj.uuid
    IN  IF args.obj._model # "audited" \/ event \notin DOMAIN change_events THEN m
        ELSE CASE event = "capellambse.setattr" ->
                    [m EXCEPT !.objs[u].long_name = args.value.val]
               [] event = "capellambse.setitem" ->
                    [m EXCEPT !.objs[u].values[args.index] = args.value.uuid]
               [] event = "capellambse.delete" ->
                    IF args.attr_name = "type" THEN [m EXCEPT !.objs[u].type = None]
                    ELSE Delete(m, {UUIDReference(Removed(m, args)[i]) :
                                       i \in DOMAIN Removed(m, args)})
               [] event = "capellambse.insert" -> Move(m, args.value.uuid, u)
               [] OTHER ->
                    AddObj(m, args.value.uuid,
                           Obj(args.value.kind, u, "", args.value.long_name))

AuditEvents(m) ==
    LET on(us) == {Subject(m, u) : u \in us \cap DOMAIN m.objs}
    IN  {[event |-> "capellambse.setattr",
          args |-> [obj |-> obj, attr_name |-> "long_name", value |-> Plain("New")]] :
            obj \in on({"m1", "r1"}) \cup {Stranger}}
        \cup {[event |-> "capellambse.setitem",
               args |-> [obj |-> obj, attr_name |-> "values", index |-> 1,
                         value |-> Element(m, "ev2")]] :
                 obj \in {o \in on({"av2"}) : m.objs[o.uuid].values # <<>>}}
        \cup UNION {{[event |-> "capellambse.delete",
                      args |-> [obj |-> obj, attr_name |-> attr_name, index |-> index]] :
                        index \in {NoIndex} \cup DOMAIN getattr(m, obj.uuid, attr_name)} :
                    obj \in on({"m1", "fa"}), attr_name \in {"requirements", "folders"}}
        \cup {[event |-> "capellambse.delete",
               args |-> [obj |-> obj, attr_name |-> "type", index |-> NoIndex]] :
                 obj \in {o \in on({"r1"}) : m.objs[o.uuid].type # None}}
        \cup {[event |-> "capellambse.delete",
               args |-> [obj |-> Stranger, attr_name |-> "requirements", index |-> 1]]}
        \cup {[event |-> "capellambse.insert",
               args |-> [obj |-> obj, attr_name |-> "requirements", index |-> 1,
                         value |-> Element(m, r)]] :
                 obj \in on({"fb"}), r \in {"r1", "r2"} \cap DOMAIN m.objs}
        \cup {[event |-> "capellambse.create",
               args |-> [obj |-> obj, attr_name |-> "requirements", value |-> CreatedElement]] :
                 obj \in {o \in on({"fa"}) : "new" \notin DOMAIN m.objs}}
        \cup {[event |-> "open", args |-> [obj |-> Stranger]]}

\* sys.audit(event, *args) reaches the hook, then the mutation takes place.
Audit ==
    /\ pc = "audit"
    /\ Len(auditor.raised) < MaxEvents
    /\ \E e \in AuditEvents(model) :
          /\ auditor' = [__audit(auditor, model, e.event, e.args) EXCEPT
                            !.raised = Append(@,
                                [e EXCEPT !.args =
                                    IF e.event = "capellambse.delete"
                                       /\ e.args.obj._model = "audited"
                                    THEN [removed |-> Removed(model, e.args)] @@ @
                                    ELSE @])]
          /\ model' = Mutated(model, e.event, e.args)
    /\ UNCHANGED <<snapshot, config, force, safe_mode, gather_logs, pc, tc,
                   items_left, log, result, applied, cli>>

\* with ChangeAuditor(model) as changes: ...
Enter ==
    /\ pc = "audit"
    /\ ~auditor.entered /\ auditor.attached
    /\ auditor' = [auditor EXCEPT !.entered = TRUE]
    /\ UNCHANGED <<model, snapshot, config, force, safe_mode, gather_logs, pc, tc,
                   items_left, log, result, applied, cli>>

\* __exit__ calls detach().
Exit ==
    /\ pc = "audit"
    /\ auditor.entered /\ auditor.attached
    /\ Len(auditor.raised) < MaxEvents
    /\ auditor' = [detach(auditor) EXCEPT
                      !.raised = Append(@, [event |-> "__exit__"])]
    /\ UNCHANGED <<model, snapshot, config, force, safe_mode, gather_logs, pc, tc,
                   items_left, log, result, applied, cli>>

Detach ==
    /\ pc = "audit"
    /\ ~auditor.entered
    /\ Len(auditor.raised) < MaxEvents
    /\ auditor' = [detach(auditor) EXCEPT
                      !.raised = Append(@, [event |-> "detach"])]
    /\ UNCHANGED <<model, snapshot, config, force, safe_mode, gather_logs, pc, tc,
                   items_left, log, result, applied, cli>>

Auditing == Audit \/ Enter \/ Exit \/ Detach

InitAudit ==
    /\ model = MigratedModel
    /\ snapshot = Snapshot(<<>>, <<>>, <<>>)
    /\ config = TrackerConfig
    /\ force = FALSE
    /\ safe_mode = TRUE
    /\ gather_logs = TRUE
    /\ pc = "audit"
    /\ tc = NewTrackerChange
    /\ items_left = <<>>
    /\ log = <<>>
    /\ result = Pending
    /\ applied = <<>>
    /\ cli = NotRunning
    /\ auditor \in {ChangeAuditor(classes) :
                        classes \in {{}, {"Requirement"}, {"Folder", "CapellaModule"}}}

SpecAudit == InitAudit /\ [][Auditing]_vars

\* What the history calls for: nothing for an event raised after detach()
\* or __exit__(), for an event that is no mutation, for an object of
\* another model or of a class the filter does not hold; one Deletion for
\* each element removed; else one record.
Detached(i) ==
    \E k \in 1..(i - 1) : auditor.raised[k].event \in {"detach", "__exit__"}

Audited(i) ==
    LET e == auditor.raised[i]
    IN  /\ e.event \in {"capellambse.setattr", "capellambse.setitem",
                         "capellambse.delete", "capellambse.create",
                         "capellambse.insert"}
        /\ ~Detached(i)
        /\ e.args.obj._model = "audited"
        /\ auditor.classes = {} \/ e.args.obj.class \in auditor.classes

ExpectedRecords(i) ==
    LET e == auditor.raised[i]
        of(type) == [_type |-> type, parent |-> e.args.obj.uuid,
                     attribute |-> e.args.attr_name]
    IN  IF ~Audited(i) THEN <<>>
        ELSE IF e.event = "capellambse.delete"
        THEN IF e.args.attr_name = "type" THEN <<of("Deletion")>>
             ELSE [k \in DOMAIN e.args.removed |->
                      of("Deletion") @@ [uuid |-> e.args.removed[k]]]
        ELSE IF e.event \in {"capellambse.setattr", "capellambse.setitem"}
        THEN <<of("Modification")>>
        ELSE <<of("Extension") @@ [uuid |-> e.args.value.uuid]>>

Matches(record, expected) ==
    \A key \in DOMAIN expected : record[key] = expected[key]

(***************************************************************************)
(* C30: the context of a ChangeAuditor holds, in the order of the events,  *)
(* one record for every setattr, setitem, insert and create and one for    *)
(* every element a delete removes, raised on an object of its model whose  *)
(* class name passes the filter; nothing is appended after detach() or     *)
(* after the with-block is left.                                           *)
(***************************************************************************)
C30_OneRecordPerAuditedEvent ==
    pc = "audit" =>
        LET expected == Flatten([i \in DOMAIN auditor.raised |-> ExpectedRecords(i)])
        IN  /\ Len(auditor.context) = Len(expected)
            /\ \A i \in DOMAIN expected : Matches(auditor.context[i], expected[i])

\* A delete that removed two elements was recorded, then the auditor was
\* detached or the with-block left, and a mutation followed.
C30_Witness ==
    /\ pc = "audit"
    /\ Len(auditor.raised) = MaxEvents
    /\ auditor.raised[1].event = "capellambse.delete"
    /\ Audited(1)
    /\ Len(ExpectedRecords(1)) = 2
    /\ Len(auditor.context) = 2
    /\ auditor.raised[2].event \in {"detach", "__exit__"}
    /\ auditor.raised[3].event \in DOMAIN change_events
    /\ auditor.raised[3].args.obj._model = "audited"

====
